---- MODULE Spec2Model ----
(***************************************************************************)
(* Coast2Cart backend: the account / OTP / seller-approval handlers and    *)
(* the item catalogue with its sale transaction, as state machines over    *)
(* the document database.  Every request handler is cut at its awaits, so  *)
(* that two requests interleave exactly where Node lets them interleave.   *)
(***************************************************************************)
EXTENDS Integers, FiniteSets, Sequences, TLC

\* ------------------------------------------------------------------ bounds
MaxTime == 7            \* minutes of wall-clock time explored
MaxOtps == 3            \* OTP documents ever inserted
Procs == {1, 2}         \* request slots: requests that can be in flight together
AuthProcs == {1}        \* the slot of the multi-step requests a specification runs one at a time
ContactNos == {1}       \* phone numbers that sign up
OtpCodes == {1, 2}      \* stand-ins for two different 6-digit codes
Passwords == {1}         \* passwords chosen at signup
LoginPasswords == Passwords \cup {0}   \* passwords tried at login: 0 is nobody's

NoId == 0 - 1           \* an unset reference, date or secret
MaxItems == 1           \* Item documents ever inserted
MaxStock == 2           \* largest quantity a request names
MaxReceipts == 2        \* Receipt documents ever inserted
Prices == {2}           \* item prices a request names
BuyerIds == ContactNos \cup {9}   \* buyers a sale names: 9 is a well-formed id of no account
CartItemIds == {1, 2}   \* the items the cart requests name
DeletedItemIds == {1}   \* the items a deleteItem names while carts are in use
MaxVersion == 2         \* versioned writes to one Cart document
MaxImages == 3          \* images ever uploaded to the image host
MaxAttempts == 3        \* calls of mongoose.connect

\* ------------------------------------------------------- program constants
OtpTtlMinutes == 5
SuperAdminId == 0

AccountIds == {SuperAdminId} \cup ContactNos
ItemIds == 1..MaxItems
NoItem == [exists |-> FALSE, seller |-> NoId, itemPrice |-> 0, quantity |-> 0,
           isActive |-> FALSE, imagePublicId |-> NoId]
None == "none"          \* an unset string field

VARIABLES
    accounts,      \* Account collection: id -> document
    otps,          \* OTP collection: set of documents
    otpSeq,        \* number of OTP documents inserted so far (their _id)
    tokens,        \* account ids for which generateToken has signed a token
    smsLog,        \* number of messages handed to the SMS gateway
    now,           \* wall clock, minutes
    req,           \* per in-flight request: handler, position, locals
    last,          \* the response most recently sent
    otpVerified,   \* history: accounts that verifyOTP has marked verified
    issued,        \* history: per account, the _id of the OTP inserted last
    items,         \* Item collection: id -> document
    itemSeq,       \* number of Item documents inserted so far
    receipts,      \* Receipt (sold item) collection: set of documents
    receiptSeq,    \* number of Receipt documents inserted so far
    stockTaken,    \* history: receipts whose stock decrement has been saved
    carts,         \* Cart collection: set of documents
    cartSeq,       \* number of Cart documents inserted so far (their _id)
    images,        \* image host: public ids of the images it holds
    imageSeq,      \* number of images uploaded so far (their public id)
    cached,        \* db/connect.js: global.mongoose, { conn, promise }
    attempts,      \* the promises mongoose.connect has returned: id -> state
    readyState,    \* mongoose.connection.readyState
    listening      \* whether the error and disconnected handlers are registered

itemVars == <<items, itemSeq, receipts, receiptSeq, stockTaken>>
authVars == <<accounts, otps, otpSeq, tokens, smsLog, now, otpVerified, issued>>
cartVars == <<carts, cartSeq>>
imageVars == <<images, imageSeq>>
connVars == <<cached, attempts, readyState, listening>>
vars == <<accounts, otps, otpSeq, tokens, smsLog, now, req, last, otpVerified, issued,
          items, itemSeq, receipts, receiptSeq, stockTaken, carts, cartSeq,
          images, imageSeq, cached, attempts, readyState, listening>>

\* db/connect.js before the first call: nothing cached, mongoose disconnected
NoConnection ==
    /\ cached = [conn |-> FALSE, promise |-> NoId]
    /\ attempts = [id \in 1..MaxAttempts |-> "none"]
    /\ readyState = 0
    /\ listening = FALSE

NoAccount ==
    [exists |-> FALSE, role |-> None, isVerified |-> FALSE,
     sellerApprovalStatus |-> None, approvedBy |-> NoId, approvedAt |-> NoId,
     password |-> NoId]

IdleReq == [op |-> "idle", pc |-> "idle"]
Idle(p) == req[p].op = "idle"

\* ----------------------------------------------------------- pure helpers

\* verifyOTP with the expiry test dropped
PhilSmsVerifyOTPNoExpiry(storedOTP, inputOTP, expiresAt, t) ==
    storedOTP = inputOTP

\* PhilSMSService.verifyOTP
PhilSmsVerifyOTP(storedOTP, inputOTP, expiresAt, t) ==
    LET isExpired == t > expiresAt
        isMatch == storedOTP = inputOTP
    IN  ~isExpired /\ isMatch

\* OTP.findOne({ userId }).sort({ createdAt: -1 }): the candidates the query
\* can return (equal createdAt leaves the order to the server)
LatestOtps(uid) ==
    LET mine == {o \in otps : o.userId = uid}
    IN  {o \in mine : \A o2 \in mine : o2.createdAt <= o.createdAt}

\* a document read from the collection: a path that is not stored and has a
\* schema default (sellerApprovalStatus: "pending") is filled in with it
SchemaDefaults(account) ==
    [account EXCEPT !.sellerApprovalStatus = IF @ = None THEN "pending" ELSE @]

\* accountSchema.pre("save") on a new document: role decides the approval field
NewAccount(role, pw) ==
    [exists |-> TRUE, role |-> role, isVerified |-> FALSE,
     sellerApprovalStatus |-> IF role = "seller" THEN "pending" ELSE None,
     approvedBy |-> NoId, approvedAt |-> NoId, password |-> pw]

\* login without the isVerified gate
LoginOutcomeNoVerifiedGate(account, password) ==
    IF ~account.exists THEN [status |-> 404, msg |-> "notFound"]
    ELSE IF account.role = "seller" /\ account.sellerApprovalStatus = "pending"
        THEN [status |-> 401, msg |-> "pending"]
    ELSE IF account.role = "seller" /\ account.sellerApprovalStatus = "rejected"
        THEN [status |-> 401, msg |-> "rejected"]
    ELSE IF account.password # password THEN [status |-> 401, msg |-> "badPassword"]
    ELSE [status |-> 200, msg |-> "ok"]

\* login that turns away pending sellers only
LoginOutcomeNoRejectedGate(account, password) ==
    IF ~account.exists THEN [status |-> 404, msg |-> "notFound"]
    ELSE IF ~account.isVerified THEN [status |-> 401, msg |-> "notVerified"]
    ELSE IF account.role = "seller" /\ account.sellerApprovalStatus = "pending"
        THEN [status |-> 401, msg |-> "pending"]
    ELSE IF account.password # password THEN [status |-> 401, msg |-> "badPassword"]
    ELSE [status |-> 200, msg |-> "ok"]

\* login's decision on the account document it read
LoginOutcome(account, password) ==
    IF ~account.exists THEN [status |-> 404, msg |-> "notFound"]
    ELSE IF ~account.isVerified THEN [status |-> 401, msg |-> "notVerified"]
    ELSE IF account.role = "seller" /\ account.sellerApprovalStatus = "pending"
        THEN [status |-> 401, msg |-> "pending"]
    ELSE IF account.role = "seller" /\ account.sellerApprovalStatus = "rejected"
        THEN [status |-> 401, msg |-> "rejected"]
    ELSE IF account.password # password THEN [status |-> 401, msg |-> "badPassword"]
    ELSE [status |-> 200, msg |-> "ok"]

\* authenticateToken's decision on the token's subject
AuthenticateOutcome(tok) ==
    IF tok = NoId THEN [status |-> 401, msg |-> "tokenRequired"]
    ELSE IF ~accounts[tok].exists THEN [status |-> 401, msg |-> "userNotFound"]
    ELSE IF ~accounts[tok].isVerified THEN [status |-> 401, msg |-> "notVerified"]
    ELSE [status |-> 200, msg |-> "ok"]

\* OTP documents a signup or resend in flight is still going to insert
PendingInserts ==
    Cardinality({p \in Procs : req[p].op \in {"signup", "resend"}})

Reply(r) == last' = r

\* ------------------------------------------------------------------ signup

\* checkUsernameUnique / checkEmailUnique / checkContactUnique, which run
\* before the handler: any existing account ends the request with
\* BadRequestError, which errorHandler answers without flag or contact number
SignupUnique(p, c, role, pw) ==
    /\ Idle(p)
    /\ otpSeq + PendingInserts < MaxOtps
    /\ IF accounts[c].exists
         THEN /\ Reply([op |-> "signup", acct |-> c, status |-> 400, msg |-> "exists",
                        accountNotVerified |-> FALSE, contactNo |-> NoId])
              /\ UNCHANGED req
         ELSE /\ req' = [req EXCEPT ![p] = [op |-> "signup", pc |-> "find",
                                            c |-> c, role |-> role, pw |-> pw]]
              /\ UNCHANGED last
    /\ UNCHANGED <<accounts, otps, otpSeq, tokens, smsLog, now, otpVerified, issued>>
    /\ UNCHANGED itemVars
    /\ UNCHANGED imageVars
    /\ UNCHANGED cartVars
    /\ UNCHANGED connVars

SignupFind(p) ==
    /\ req[p].op = "signup" /\ req[p].pc = "find"
    /\ LET existing == accounts[req[p].c] IN
       IF existing.exists
         THEN \* the error carries accountNotVerified; err.contactNo is never set
              /\ Reply([op |-> "signup", acct |-> req[p].c, status |-> 409,
                        msg |-> IF existing.isVerified THEN "duplicate" ELSE "accountNotVerified",
                        accountNotVerified |-> ~existing.isVerified, contactNo |-> NoId])
              /\ req' = [req EXCEPT ![p] = IdleReq]
         ELSE /\ req' = [req EXCEPT ![p].pc = "create"]
              /\ UNCHANGED last
    /\ UNCHANGED <<accounts, otps, otpSeq, tokens, smsLog, now, otpVerified, issued>>
    /\ UNCHANGED itemVars
    /\ UNCHANGED imageVars
    /\ UNCHANGED cartVars
    /\ UNCHANGED connVars

\* Account.create, then generateOTP and the expiry computed from Date.now()
SignupCreate(p, code) ==
    /\ req[p].op = "signup" /\ req[p].pc = "create"
    /\ IF accounts[req[p].c].exists
         THEN \* unique index on contactNo: E11000, answered as 500
              /\ Reply([op |-> "signup", acct |-> req[p].c, status |-> 500, msg |-> "duplicateKey"])
              /\ req' = [req EXCEPT ![p] = IdleReq]
              /\ UNCHANGED accounts
         ELSE /\ accounts' = [accounts EXCEPT ![req[p].c] = NewAccount(req[p].role, req[p].pw)]
              /\ req' = [req EXCEPT ![p] = [op |-> "signup", pc |-> "otp", c |-> req[p].c,
                                            code |-> code, expiresAt |-> now + OtpTtlMinutes]]
              /\ UNCHANGED last
    /\ UNCHANGED <<otps, otpSeq, tokens, smsLog, now, otpVerified, issued>>
    /\ UNCHANGED itemVars
    /\ UNCHANGED imageVars
    /\ UNCHANGED cartVars
    /\ UNCHANGED connVars

SignupOtp(p) ==
    /\ req[p].op = "signup" /\ req[p].pc = "otp"
    /\ otps' = otps \cup {[id |-> otpSeq + 1, userId |-> req[p].c, otp |-> req[p].code,
                           expiresAt |-> req[p].expiresAt, createdAt |-> now]}
    /\ otpSeq' = otpSeq + 1
    /\ issued' = [issued EXCEPT ![req[p].c] = otpSeq + 1]
    /\ req' = [req EXCEPT ![p] = [op |-> "signupSms", pc |-> "sms", c |-> req[p].c,
                                  code |-> req[p].code]]
    /\ UNCHANGED <<accounts, tokens, smsLog, now, last, otpVerified>>
    /\ UNCHANGED itemVars
    /\ UNCHANGED imageVars
    /\ UNCHANGED cartVars
    /\ UNCHANGED connVars

\* signup answering the gateway's failure as an error of the call
SignupSmsFailing(p, ok) ==
    /\ req[p].op = "signupSms"
    /\ smsLog' = smsLog + 1
    /\ Reply([op |-> "signup", acct |-> req[p].c, status |-> IF ok THEN 201 ELSE 500,
              msg |-> IF ok THEN "created" ELSE "smsFailed", smsSent |-> ok])
    /\ req' = [req EXCEPT ![p] = IdleReq]
    /\ UNCHANGED <<accounts, otps, otpSeq, tokens, now, otpVerified, issued>>
    /\ UNCHANGED itemVars
    /\ UNCHANGED imageVars
    /\ UNCHANGED cartVars
    /\ UNCHANGED connVars

\* philsmsService.sendOTP, whose result ok only goes into smsSent, and the 201
SignupSms(p, ok) ==
    /\ req[p].op = "signupSms"
    /\ smsLog' = smsLog + 1
    /\ Reply([op |-> "signup", acct |-> req[p].c, status |-> 201, msg |-> "created", smsSent |-> ok])
    /\ req' = [req EXCEPT ![p] = IdleReq]
    /\ UNCHANGED <<accounts, otps, otpSeq, tokens, now, otpVerified, issued>>
    /\ UNCHANGED itemVars
    /\ UNCHANGED imageVars
    /\ UNCHANGED cartVars
    /\ UNCHANGED connVars

\* --------------------------------------------------------------- verifyOTP

VerifyFind(p, c, code) ==
    /\ Idle(p)
    /\ LET account == accounts[c] IN
       IF ~account.exists
         THEN /\ Reply([op |-> "verifyOTP", acct |-> c, status |-> 404, msg |-> "notFound"])
              /\ UNCHANGED req
       ELSE IF account.isVerified
         THEN /\ Reply([op |-> "verifyOTP", acct |-> c, status |-> 400, msg |-> "alreadyVerified"])
              /\ UNCHANGED req
         ELSE /\ req' = [req EXCEPT ![p] = [op |-> "verifyOTP", pc |-> "otp", c |-> c, code |-> code]]
              /\ UNCHANGED last
    /\ UNCHANGED <<accounts, otps, otpSeq, tokens, smsLog, now, otpVerified, issued>>
    /\ UNCHANGED itemVars
    /\ UNCHANGED imageVars
    /\ UNCHANGED cartVars
    /\ UNCHANGED connVars

\* OTP.findOne(...).sort(...), then philsmsService.verifyOTP against the clock
VerifyCheck(p) ==
    /\ req[p].op = "verifyOTP" /\ req[p].pc = "otp"
    /\ IF LatestOtps(req[p].c) = {}
         THEN /\ Reply([op |-> "verifyOTP", acct |-> req[p].c, status |-> 400, msg |-> "noOtp"])
              /\ req' = [req EXCEPT ![p] = IdleReq]
         ELSE \E otpRecord \in LatestOtps(req[p].c) :
                IF PhilSmsVerifyOTP(otpRecord.otp, req[p].code, otpRecord.expiresAt, now)
                  THEN /\ req' = [req EXCEPT ![p] = [op |-> "verifyOTP", pc |-> "save",
                                                     c |-> req[p].c, otpRecord |-> otpRecord,
                                                     checkedAt |-> now]]
                       /\ UNCHANGED last
                  ELSE /\ Reply([op |-> "verifyOTP", acct |-> req[p].c, status |-> 400,
                                 msg |-> "invalidOrExpired", otpRecord |-> otpRecord,
                                 code |-> req[p].code, checkedAt |-> now])
                       /\ req' = [req EXCEPT ![p] = IdleReq]
    /\ UNCHANGED <<accounts, otps, otpSeq, tokens, smsLog, now, otpVerified, issued>>
    /\ UNCHANGED itemVars
    /\ UNCHANGED imageVars
    /\ UNCHANGED cartVars
    /\ UNCHANGED connVars

\* account.isVerified = true; await account.save(): the save writes the changed
\* path and the paths the schema defaults filled in when the document was read
VerifySave(p) ==
    /\ req[p].op = "verifyOTP" /\ req[p].pc = "save"
    /\ accounts' = [accounts EXCEPT ![req[p].c] = [SchemaDefaults(@) EXCEPT !.isVerified = TRUE]]
    /\ otpVerified' = otpVerified \cup {req[p].c}
    /\ req' = [req EXCEPT ![p].pc = "delete"]
    /\ UNCHANGED <<otps, otpSeq, tokens, smsLog, now, last, issued>>
    /\ UNCHANGED itemVars
    /\ UNCHANGED imageVars
    /\ UNCHANGED cartVars
    /\ UNCHANGED connVars

\* OTP.findByIdAndDelete, generateToken, 200
VerifyFinish(p) ==
    /\ req[p].op = "verifyOTP" /\ req[p].pc = "delete"
    /\ otps' = {o \in otps : o.id # req[p].otpRecord.id}
    /\ tokens' = tokens \cup {req[p].c}
    /\ Reply([op |-> "verifyOTP", acct |-> req[p].c, status |-> 200, msg |-> "ok",
              otpRecord |-> req[p].otpRecord, code |-> req[p].otpRecord.otp,
              checkedAt |-> req[p].checkedAt])
    /\ req' = [req EXCEPT ![p] = IdleReq]
    /\ UNCHANGED <<accounts, otpSeq, smsLog, now, otpVerified, issued>>
    /\ UNCHANGED itemVars
    /\ UNCHANGED imageVars
    /\ UNCHANGED cartVars
    /\ UNCHANGED connVars

\* --------------------------------------------------------------- resendOTP

ResendFind(p, c) ==
    /\ Idle(p)
    /\ otpSeq + PendingInserts < MaxOtps
    /\ LET account == accounts[c] IN
       IF ~account.exists
         THEN /\ Reply([op |-> "resendOTP", acct |-> c, status |-> 404, msg |-> "notFound"])
              /\ UNCHANGED req
       ELSE IF account.isVerified
         THEN /\ Reply([op |-> "resendOTP", acct |-> c, status |-> 400, msg |-> "alreadyVerified"])
              /\ UNCHANGED req
         ELSE /\ req' = [req EXCEPT ![p] = [op |-> "resend", pc |-> "check", c |-> c]]
              /\ UNCHANGED last
    /\ UNCHANGED <<accounts, otps, otpSeq, tokens, smsLog, now, otpVerified, issued>>
    /\ UNCHANGED itemVars
    /\ UNCHANGED imageVars
    /\ UNCHANGED cartVars
    /\ UNCHANGED connVars

\* a cooldown test with the comparison turned round
ResendBlockedInverted(lastOtp, t) == lastOtp.expiresAt < t

\* the cooldown test on the newest OTP document
ResendBlocked(lastOtp, t) == lastOtp.expiresAt > t

\* OTP.findOne(...).sort(...), the cooldown test, generateOTP and the new expiry
ResendCheck(p, code) ==
    /\ req[p].op = "resend" /\ req[p].pc = "check"
    /\ \/ /\ LatestOtps(req[p].c) = {}
          /\ req' = [req EXCEPT ![p] = [op |-> "resend", pc |-> "delete", c |-> req[p].c,
                                        code |-> code, expiresAt |-> now + OtpTtlMinutes]]
          /\ UNCHANGED last
       \/ \E lastOtp \in LatestOtps(req[p].c) :
             IF ResendBlocked(lastOtp, now)
               THEN /\ Reply([op |-> "resendOTP", acct |-> req[p].c, status |-> 429,
                              msg |-> "cooldown"])
                    /\ req' = [req EXCEPT ![p] = IdleReq]
               ELSE /\ req' = [req EXCEPT ![p] = [op |-> "resend", pc |-> "delete",
                                                  c |-> req[p].c, code |-> code,
                                                  expiresAt |-> now + OtpTtlMinutes]]
                    /\ UNCHANGED last
    /\ UNCHANGED <<accounts, otps, otpSeq, tokens, smsLog, now, otpVerified, issued>>
    /\ UNCHANGED itemVars
    /\ UNCHANGED imageVars
    /\ UNCHANGED cartVars
    /\ UNCHANGED connVars

\* resend that forgets to delete the superseded documents
ResendDeleteNothing(p) ==
    /\ req[p].op = "resend" /\ req[p].pc = "delete"
    /\ req' = [req EXCEPT ![p].pc = "create"]
    /\ UNCHANGED <<accounts, otps, otpSeq, tokens, smsLog, now, last, otpVerified, issued>>
    /\ UNCHANGED itemVars
    /\ UNCHANGED imageVars
    /\ UNCHANGED cartVars
    /\ UNCHANGED connVars

\* OTP.deleteMany({ userId })
ResendDelete(p) ==
    /\ req[p].op = "resend" /\ req[p].pc = "delete"
    /\ otps' = {o \in otps : o.userId # req[p].c}
    /\ req' = [req EXCEPT ![p].pc = "create"]
    /\ UNCHANGED <<accounts, otpSeq, tokens, smsLog, now, last, otpVerified, issued>>
    /\ UNCHANGED itemVars
    /\ UNCHANGED imageVars
    /\ UNCHANGED cartVars
    /\ UNCHANGED connVars

\* OTP.create
ResendCreate(p) ==
    /\ req[p].op = "resend" /\ req[p].pc = "create"
    /\ otps' = otps \cup {[id |-> otpSeq + 1, userId |-> req[p].c, otp |-> req[p].code,
                           expiresAt |-> req[p].expiresAt, createdAt |-> now]}
    /\ otpSeq' = otpSeq + 1
    /\ issued' = [issued EXCEPT ![req[p].c] = otpSeq + 1]
    /\ req' = [req EXCEPT ![p] = [op |-> "resendSms", pc |-> "sms", c |-> req[p].c,
                                  newId |-> otpSeq + 1]]
    /\ UNCHANGED <<accounts, tokens, smsLog, now, last, otpVerified>>
    /\ UNCHANGED itemVars
    /\ UNCHANGED imageVars
    /\ UNCHANGED cartVars
    /\ UNCHANGED connVars

\* philsmsService.sendOTP, 200
ResendSms(p, ok) ==
    /\ req[p].op = "resendSms"
    /\ smsLog' = smsLog + 1
    /\ Reply([op |-> "resendOTP", acct |-> req[p].c, status |-> 200, msg |-> "resent",
              smsSent |-> ok, newId |-> req[p].newId])
    /\ req' = [req EXCEPT ![p] = IdleReq]
    /\ UNCHANGED <<accounts, otps, otpSeq, tokens, now, otpVerified, issued>>
    /\ UNCHANGED itemVars
    /\ UNCHANGED imageVars
    /\ UNCHANGED cartVars
    /\ UNCHANGED connVars

\* the TTL index on expiresAt: the server removes a document once it is due
TtlExpire ==
    /\ \E o \in otps : o.expiresAt <= now /\ otps' = otps \ {o}
    /\ UNCHANGED <<accounts, otpSeq, tokens, smsLog, now, req, last, otpVerified, issued>>
    /\ UNCHANGED itemVars
    /\ UNCHANGED imageVars
    /\ UNCHANGED cartVars
    /\ UNCHANGED connVars

\* ------------------------------------------------- login and authentication

Login(a, password) ==
    /\ LET out == LoginOutcome(accounts[a], password) IN
       /\ tokens' = IF out.status = 200 THEN tokens \cup {a} ELSE tokens
       /\ Reply([op |-> "login", acct |-> a, status |-> out.status, msg |-> out.msg,
                 pwOk |-> (accounts[a].password = password)])
    /\ UNCHANGED <<accounts, otps, otpSeq, smsLog, now, req, otpVerified, issued>>
    /\ UNCHANGED itemVars
    /\ UNCHANGED imageVars
    /\ UNCHANGED cartVars
    /\ UNCHANGED connVars

\* authenticateToken on a protected route, for a token this server signed or none
Authenticate(tok) ==
    /\ LET out == AuthenticateOutcome(tok) IN
       Reply([op |-> "authenticate", acct |-> tok, status |-> out.status, msg |-> out.msg])
    /\ UNCHANGED <<accounts, otps, otpSeq, tokens, smsLog, now, req, otpVerified, issued>>
    /\ UNCHANGED itemVars
    /\ UNCHANGED imageVars
    /\ UNCHANGED cartVars
    /\ UNCHANGED connVars

\* --------------------------------------------------------- seller approval

\* the approval lookup without its sellerApprovalStatus: "pending" filter
ApprovalFindAnyStatus(p, tok, sellerId, status) ==
    /\ Idle(p)
    /\ IF AuthenticateOutcome(tok).status # 200
         THEN /\ Reply([op |-> "approval", acct |-> sellerId, status |-> 401, msg |-> "unauthenticated"])
              /\ UNCHANGED req
       ELSE IF accounts[tok].role \notin {"admin", "superadmin"}
         THEN /\ Reply([op |-> "approval", acct |-> sellerId, status |-> 401, msg |-> "insufficient"])
              /\ UNCHANGED req
       ELSE IF status \notin {"approved", "rejected"}
         THEN /\ Reply([op |-> "approval", acct |-> sellerId, status |-> 400, msg |-> "badStatus"])
              /\ UNCHANGED req
       ELSE IF ~(accounts[sellerId].exists /\ accounts[sellerId].role = "seller")
         THEN /\ Reply([op |-> "approval", acct |-> sellerId, status |-> 404, msg |-> "notPending"])
              /\ UNCHANGED req
         ELSE /\ req' = [req EXCEPT ![p] = [op |-> "approval", pc |-> "save", caller |-> tok,
                                            sellerId |-> sellerId, status |-> status]]
              /\ UNCHANGED last
    /\ UNCHANGED <<accounts, otps, otpSeq, tokens, smsLog, now, otpVerified, issued>>
    /\ UNCHANGED itemVars
    /\ UNCHANGED imageVars
    /\ UNCHANGED cartVars
    /\ UNCHANGED connVars

\* authenticateToken, authorizeRoles("admin", "superadmin"), the status check
\* and Account.findOne({ _id, role: "seller", sellerApprovalStatus: "pending" })
ApprovalFind(p, tok, sellerId, status) ==
    /\ Idle(p)
    /\ IF AuthenticateOutcome(tok).status # 200
         THEN /\ Reply([op |-> "approval", acct |-> sellerId, status |-> 401, msg |-> "unauthenticated"])
              /\ UNCHANGED req
       ELSE IF accounts[tok].role \notin {"admin", "superadmin"}
         THEN /\ Reply([op |-> "approval", acct |-> sellerId, status |-> 401, msg |-> "insufficient"])
              /\ UNCHANGED req
       ELSE IF status \notin {"approved", "rejected"}
         THEN /\ Reply([op |-> "approval", acct |-> sellerId, status |-> 400, msg |-> "badStatus"])
              /\ UNCHANGED req
       ELSE IF ~(/\ accounts[sellerId].exists
                 /\ accounts[sellerId].role = "seller"
                 /\ accounts[sellerId].sellerApprovalStatus = "pending")
         THEN /\ Reply([op |-> "approval", acct |-> sellerId, status |-> 404, msg |-> "notPending"])
              /\ UNCHANGED req
         ELSE /\ req' = [req EXCEPT ![p] = [op |-> "approval", pc |-> "save", caller |-> tok,
                                            sellerId |-> sellerId, status |-> status]]
              /\ UNCHANGED last
    /\ UNCHANGED <<accounts, otps, otpSeq, tokens, smsLog, now, otpVerified, issued>>
    /\ UNCHANGED itemVars
    /\ UNCHANGED imageVars
    /\ UNCHANGED cartVars
    /\ UNCHANGED connVars

\* sellerAccount.save() writes the three modified paths in one update
ApprovalSave(p) ==
    /\ req[p].op = "approval" /\ req[p].pc = "save"
    /\ accounts' = [accounts EXCEPT ![req[p].sellerId] =
                       [@ EXCEPT !.sellerApprovalStatus = req[p].status,
                                 !.approvedBy = req[p].caller,
                                 !.approvedAt = now]]
    /\ Reply([op |-> "approval", acct |-> req[p].sellerId, status |-> 200, msg |-> req[p].status])
    /\ req' = [req EXCEPT ![p] = IdleReq]
    /\ UNCHANGED <<otps, otpSeq, tokens, smsLog, now, otpVerified, issued>>
    /\ UNCHANGED itemVars
    /\ UNCHANGED imageVars
    /\ UNCHANGED cartVars
    /\ UNCHANGED connVars

\* ---------------------------------------------------------------- the clock

Tick ==
    /\ now < MaxTime
    /\ now' = now + 1
    /\ UNCHANGED <<accounts, otps, otpSeq, tokens, smsLog, req, last, otpVerified, issued>>
    /\ UNCHANGED itemVars
    /\ UNCHANGED imageVars
    /\ UNCHANGED cartVars
    /\ UNCHANGED connVars

InitAuth ==
    /\ accounts = [a \in AccountIds |->
                     IF a = SuperAdminId
                       THEN [exists |-> TRUE, role |-> "superadmin", isVerified |-> TRUE,
                             sellerApprovalStatus |-> None, approvedBy |-> NoId,
                             approvedAt |-> NoId, password |-> 1]
                       ELSE NoAccount]
    /\ otps = {}
    /\ otpSeq = 0
    /\ tokens = {}
    /\ smsLog = 0
    /\ now = 0
    /\ req = [p \in Procs |-> IdleReq]
    /\ last = [op |-> "none"]
    /\ otpVerified = {}
    /\ issued = [c \in ContactNos |-> 0]
    /\ items = [i \in ItemIds |-> NoItem]
    /\ itemSeq = 0
    /\ receipts = {}
    /\ receiptSeq = 0
    /\ stockTaken = {}
    /\ carts = {}
    /\ cartSeq = 0
    /\ images = {}
    /\ imageSeq = 0
    /\ NoConnection

NextAuth ==
    \/ \E p \in AuthProcs, c \in ContactNos, role \in {"buyer", "seller"}, pw \in Passwords :
          SignupUnique(p, c, role, pw)
    \/ \E p \in AuthProcs : SignupFind(p)
    \/ \E p \in AuthProcs, code \in OtpCodes : SignupCreate(p, code)
    \/ \E p \in AuthProcs : SignupOtp(p)
    \/ \E p \in AuthProcs, ok \in BOOLEAN : SignupSms(p, ok)
    \/ \E p \in AuthProcs, c \in ContactNos, code \in OtpCodes : VerifyFind(p, c, code)
    \/ \E p \in AuthProcs : VerifyCheck(p)
    \/ \E p \in AuthProcs : VerifySave(p)
    \/ \E p \in AuthProcs : VerifyFinish(p)
    \/ \E p \in AuthProcs, c \in ContactNos : ResendFind(p, c)
    \/ \E p \in AuthProcs, code \in OtpCodes : ResendCheck(p, code)
    \/ \E p \in AuthProcs : ResendDelete(p)
    \/ \E p \in AuthProcs : ResendCreate(p)
    \/ \E p \in AuthProcs, ok \in BOOLEAN : ResendSms(p, ok)
    \/ TtlExpire
    \/ \E a \in AccountIds, pw \in LoginPasswords : Login(a, pw)
    \/ \E tok \in tokens \cup {NoId} : Authenticate(tok)
    \/ \E p \in AuthProcs, tok \in tokens, sellerId \in AccountIds,
          status \in {"approved", "rejected", "pending"} : ApprovalFind(p, tok, sellerId, status)
    \/ \E p \in AuthProcs : ApprovalSave(p)
    \/ Tick

SpecAuth == InitAuth /\ [][NextAuth]_vars
\* the clock read again one OTP lifetime later
TickTtl ==
    /\ now + OtpTtlMinutes <= MaxTime
    /\ now' = now + OtpTtlMinutes
    /\ UNCHANGED <<accounts, otps, otpSeq, tokens, smsLog, req, last, otpVerified, issued>>
    /\ UNCHANGED itemVars
    /\ UNCHANGED imageVars
    /\ UNCHANGED cartVars
    /\ UNCHANGED connVars

\* The OTP handlers with requests overlapping: signup, verifyOTP and resendOTP
\* run in every slot, against the clock and the TTL monitor.
NextOtp ==
    \/ \E p \in Procs, c \in ContactNos, role \in {"buyer", "seller"}, pw \in Passwords :
          SignupUnique(p, c, role, pw)
    \/ \E p \in Procs : SignupFind(p)
    \/ \E p \in Procs, code \in OtpCodes : SignupCreate(p, code)
    \/ \E p \in Procs : SignupOtp(p)
    \/ \E p \in Procs, ok \in BOOLEAN : SignupSms(p, ok)
    \/ \E p \in Procs, c \in ContactNos, code \in OtpCodes : VerifyFind(p, c, code)
    \/ \E p \in Procs : VerifyCheck(p)
    \/ \E p \in Procs : VerifySave(p)
    \/ \E p \in Procs : VerifyFinish(p)
    \/ \E p \in Procs, c \in ContactNos : ResendFind(p, c)
    \/ \E p \in Procs, code \in OtpCodes : ResendCheck(p, code)
    \/ \E p \in Procs : ResendDelete(p)
    \/ \E p \in Procs : ResendCreate(p)
    \/ \E p \in Procs, ok \in BOOLEAN : ResendSms(p, ok)
    \/ TtlExpire
    \/ TickTtl

SpecOtp == InitAuth /\ [][NextOtp]_vars

\* ------------------------------------------------------------ item catalogue
\* Every item route runs authenticateToken first; a handler below is reached
\* only by a caller that middleware lets through.
Authenticated(tok) == AuthenticateOutcome(tok).status = 200

\* requests that are going to insert a Receipt
PendingSales == Cardinality({p \in Procs : req[p].op = "sell"})

\* validateItemCreation, and the run of createItem in which uploadImage and
\* item.save() both succeed, as one step
CreateItem(caller, itemPrice, quantity) ==
    /\ Authenticated(caller)
    /\ itemSeq < MaxItems
    /\ IF quantity < 0 \/ itemPrice <= 0
         THEN /\ Reply([op |-> "createItem", status |-> 400, msg |-> "validation"])
              /\ UNCHANGED <<items, itemSeq>>
              /\ UNCHANGED imageVars
         ELSE /\ images' = images \cup {imageSeq + 1}
              /\ imageSeq' = imageSeq + 1
              /\ items' = [items EXCEPT ![itemSeq + 1] =
                             [exists |-> TRUE, seller |-> caller, itemPrice |-> itemPrice,
                              quantity |-> quantity, isActive |-> TRUE,
                              imagePublicId |-> imageSeq + 1]]
              /\ itemSeq' = itemSeq + 1
              /\ Reply([op |-> "createItem", status |-> 201, msg |-> "created"])
    /\ UNCHANGED <<req, receipts, receiptSeq, stockTaken>>
    /\ UNCHANGED authVars
    /\ UNCHANGED cartVars
    /\ UNCHANGED connVars

\* an update request with an empty body and no file
NoUpdate ==
    [hasQuantity |-> FALSE, quantity |-> 0, hasPrice |-> FALSE, itemPrice |-> 0,
     hasSeller |-> FALSE, seller |-> NoId, hasFile |-> FALSE]

\* the request bodies updateItem is tried with: nothing, a quantity, a price
UpdateBodies ==
    {NoUpdate}
    \cup {[NoUpdate EXCEPT !.hasQuantity = TRUE, !.quantity = q] : q \in (0 - 1)..MaxStock}
    \cup {[NoUpdate EXCEPT !.hasPrice = TRUE, !.itemPrice = x] : x \in Prices}

\* bodies that carry a seller field
SellerBodies == {[NoUpdate EXCEPT !.hasSeller = TRUE, !.seller = a] : a \in AccountIds}

\* and, where the listing is followed with its image: a replacement image, or
\* a seller field in the body
ListingBodies ==
    UpdateBodies
    \cup {[NoUpdate EXCEPT !.hasFile = TRUE]}
    \cup SellerBodies

\* validateItemUpdate
ValidItemUpdate(body) ==
    /\ body.hasQuantity => body.quantity >= 0
    /\ body.hasPrice => body.itemPrice > 0

\* updateItem without its owner check
UpdateFindAnyCaller(p, caller, itemId, body) ==
    /\ Idle(p) /\ Authenticated(caller)
    /\ IF ~ValidItemUpdate(body)
         THEN /\ Reply([op |-> "updateItem", slot |-> p, status |-> 400, msg |-> "validation"])
              /\ UNCHANGED req
       ELSE IF ~items[itemId].exists
         THEN /\ Reply([op |-> "updateItem", slot |-> p, status |-> 404, msg |-> "notFound"])
              /\ UNCHANGED req
         ELSE /\ req' = [req EXCEPT ![p] =
                           [op |-> "updateItem",
                            pc |-> IF ~body.hasFile THEN "write"
                                   ELSE IF items[itemId].imagePublicId # NoId THEN "oldImage"
                                   ELSE "upload",
                            itemId |-> itemId, updateData |-> body,
                            oldImage |-> IF body.hasFile THEN items[itemId].imagePublicId
                                                         ELSE NoId,
                            newImage |-> NoId]]
              /\ UNCHANGED last
    /\ UNCHANGED itemVars
    /\ UNCHANGED authVars
    /\ UNCHANGED imageVars
    /\ UNCHANGED cartVars
    /\ UNCHANGED connVars

\* validateItemUpdate, Item.findById and the owner check
UpdateFind(p, caller, itemId, body) ==
    /\ Idle(p) /\ Authenticated(caller)
    /\ IF ~ValidItemUpdate(body)
         THEN /\ Reply([op |-> "updateItem", slot |-> p, status |-> 400, msg |-> "validation"])
              /\ UNCHANGED req
       ELSE IF ~items[itemId].exists
         THEN /\ Reply([op |-> "updateItem", slot |-> p, status |-> 404, msg |-> "notFound"])
              /\ UNCHANGED req
       ELSE IF items[itemId].seller # caller
         THEN /\ Reply([op |-> "updateItem", slot |-> p, status |-> 403, msg |-> "notOwner"])
              /\ UNCHANGED req
         ELSE /\ req' = [req EXCEPT ![p] =
                           [op |-> "updateItem",
                            pc |-> IF ~body.hasFile THEN "write"
                                   ELSE IF items[itemId].imagePublicId # NoId THEN "oldImage"
                                   ELSE "upload",
                            itemId |-> itemId, updateData |-> body,
                            oldImage |-> IF body.hasFile THEN items[itemId].imagePublicId
                                                         ELSE NoId,
                            newImage |-> NoId]]
              /\ UNCHANGED last
    /\ UNCHANGED itemVars
    /\ UNCHANGED authVars
    /\ UNCHANGED imageVars
    /\ UNCHANGED cartVars
    /\ UNCHANGED connVars

\* req.file is there: deleteImage(item.imagePublicId) in its try/catch; ok is
\* whether the image host carried the request out
UpdateOldImage(p, ok) ==
    /\ req[p].op = "updateItem" /\ req[p].pc = "oldImage"
    /\ images' = IF ok THEN images \ {req[p].oldImage} ELSE images
    /\ UNCHANGED imageSeq
    /\ req' = [req EXCEPT ![p].pc = "upload"]
    /\ UNCHANGED last
    /\ UNCHANGED itemVars
    /\ UNCHANGED authVars
    /\ UNCHANGED cartVars
    /\ UNCHANGED connVars

\* uploadImage(req.file): a failure is thrown to the error handler, a success
\* puts the new url and public id into updateData
UpdateUpload(p, ok) ==
    /\ req[p].op = "updateItem" /\ req[p].pc = "upload"
    /\ IF ok
         THEN /\ imageSeq < MaxImages
              /\ images' = images \cup {imageSeq + 1}
              /\ imageSeq' = imageSeq + 1
              /\ req' = [req EXCEPT ![p].pc = "write", ![p].newImage = imageSeq + 1]
              /\ UNCHANGED last
         ELSE /\ Reply([op |-> "updateItem", slot |-> p, status |-> 500, msg |-> "uploadFailed",
                        itemId |-> req[p].itemId])
              /\ req' = [req EXCEPT ![p] = IdleReq]
              /\ UNCHANGED imageVars
    /\ UNCHANGED itemVars
    /\ UNCHANGED authVars
    /\ UNCHANGED cartVars
    /\ UNCHANGED connVars

\* Item.findByIdAndUpdate(itemId, updateData, { new: true, runValidators: true })
UpdateWrite(p) ==
    /\ req[p].op = "updateItem" /\ req[p].pc = "write"
    /\ LET d == req[p].updateData
           i == req[p].itemId
       IN  IF ~ValidItemUpdate(d)
             THEN /\ Reply([op |-> "updateItem", slot |-> p, status |-> 500, msg |-> "validation"])
                  /\ UNCHANGED items
           ELSE /\ items' = IF items[i].exists
                              THEN [items EXCEPT ![i] =
                                      [@ EXCEPT !.quantity = IF d.hasQuantity THEN d.quantity ELSE @,
                                                !.itemPrice = IF d.hasPrice THEN d.itemPrice ELSE @,
                                                !.seller = IF d.hasSeller THEN d.seller ELSE @,
                                                !.imagePublicId =
                                                   IF req[p].newImage # NoId THEN req[p].newImage
                                                                              ELSE @]]
                              ELSE items
                /\ Reply([op |-> "updateItem", slot |-> p, status |-> 200, msg |-> "updated"])
    /\ req' = [req EXCEPT ![p] = IdleReq]
    /\ UNCHANGED <<itemSeq, receipts, receiptSeq, stockTaken>>
    /\ UNCHANGED authVars
    /\ UNCHANGED imageVars
    /\ UNCHANGED cartVars
    /\ UNCHANGED connVars

\* setItemActiveStatus: Item.findById and the owner check
StatusFind(p, caller, itemId, isActive) ==
    /\ Idle(p) /\ Authenticated(caller)
    /\ IF ~items[itemId].exists
         THEN /\ Reply([op |-> "setActiveStatus", slot |-> p, status |-> 404, msg |-> "notFound"])
              /\ UNCHANGED req
       ELSE IF items[itemId].seller # caller
         THEN /\ Reply([op |-> "setActiveStatus", slot |-> p, status |-> 403, msg |-> "notOwner"])
              /\ UNCHANGED req
         ELSE /\ req' = [req EXCEPT ![p] = [op |-> "setActiveStatus", pc |-> "save",
                                            itemId |-> itemId, item |-> items[itemId],
                                            isActive |-> isActive]]
              /\ UNCHANGED last
    /\ UNCHANGED itemVars
    /\ UNCHANGED authVars
    /\ UNCHANGED imageVars
    /\ UNCHANGED cartVars
    /\ UNCHANGED connVars

\* item.isActive = isActive; await item.save(): only a changed path is written,
\* and a document that has gone makes save() throw
StatusSave(p) ==
    /\ req[p].op = "setActiveStatus" /\ req[p].pc = "save"
    /\ LET i == req[p].itemId IN
       IF req[p].item.isActive = req[p].isActive
         THEN /\ Reply([op |-> "setActiveStatus", slot |-> p, status |-> 200, msg |-> "updated"])
              /\ UNCHANGED items
       ELSE IF ~items[i].exists
         THEN /\ Reply([op |-> "setActiveStatus", slot |-> p, status |-> 500, msg |-> "documentNotFound"])
              /\ UNCHANGED items
         ELSE /\ items' = [items EXCEPT ![i].isActive = req[p].isActive]
              /\ Reply([op |-> "setActiveStatus", slot |-> p, status |-> 200, msg |-> "updated"])
    /\ req' = [req EXCEPT ![p] = IdleReq]
    /\ UNCHANGED <<itemSeq, receipts, receiptSeq, stockTaken>>
    /\ UNCHANGED authVars
    /\ UNCHANGED imageVars
    /\ UNCHANGED cartVars
    /\ UNCHANGED connVars

\* deleteItem: Item.findById and the owner check
DeleteFind(p, caller, itemId) ==
    /\ Idle(p) /\ Authenticated(caller)
    /\ IF ~items[itemId].exists
         THEN /\ Reply([op |-> "deleteItem", slot |-> p, status |-> 404, msg |-> "notFound"])
              /\ UNCHANGED req
       ELSE IF items[itemId].seller # caller
         THEN /\ Reply([op |-> "deleteItem", slot |-> p, status |-> 403, msg |-> "notOwner"])
              /\ UNCHANGED req
         ELSE /\ req' = [req EXCEPT ![p] =
                           [op |-> "deleteItem",
                            pc |-> IF items[itemId].imagePublicId # NoId THEN "image"
                                                                          ELSE "remove",
                            itemId |-> itemId,
                            imagePublicId |-> items[itemId].imagePublicId]]
              /\ UNCHANGED last
    /\ UNCHANGED itemVars
    /\ UNCHANGED authVars
    /\ UNCHANGED imageVars
    /\ UNCHANGED cartVars
    /\ UNCHANGED connVars

\* deleteImage(item.imagePublicId) in its try/catch: ok is whether the image
\* host carried the request out; deleteItem goes on either way
DeleteImage(p, ok) ==
    /\ req[p].op = "deleteItem" /\ req[p].pc = "image"
    /\ images' = IF ok THEN images \ {req[p].imagePublicId} ELSE images
    /\ UNCHANGED imageSeq
    /\ req' = [req EXCEPT ![p].pc = "remove"]
    /\ UNCHANGED last
    /\ UNCHANGED itemVars
    /\ UNCHANGED authVars
    /\ UNCHANGED cartVars
    /\ UNCHANGED connVars

\* deleteItem taking the item's receipts away with it
DeleteRemoveWithReceipts(p) ==
    /\ req[p].op = "deleteItem" /\ req[p].pc = "remove"
    /\ items' = [items EXCEPT ![req[p].itemId] = NoItem]
    /\ receipts' = {r \in receipts : r.item # req[p].itemId}
    /\ Reply([op |-> "deleteItem", slot |-> p, status |-> 200, msg |-> "deleted"])
    /\ req' = [req EXCEPT ![p] = IdleReq]
    /\ UNCHANGED <<itemSeq, receiptSeq, stockTaken>>
    /\ UNCHANGED authVars
    /\ UNCHANGED imageVars
    /\ UNCHANGED cartVars
    /\ UNCHANGED connVars

\* Item.findByIdAndDelete
DeleteRemove(p) ==
    /\ req[p].op = "deleteItem" /\ req[p].pc = "remove"
    /\ items' = [items EXCEPT ![req[p].itemId] = NoItem]
    /\ Reply([op |-> "deleteItem", slot |-> p, status |-> 200, msg |-> "deleted"])
    /\ req' = [req EXCEPT ![p] = IdleReq]
    /\ UNCHANGED <<itemSeq, receipts, receiptSeq, stockTaken>>
    /\ UNCHANGED authVars
    /\ UNCHANGED imageVars
    /\ UNCHANGED cartVars
    /\ UNCHANGED connVars

\* --------------------------------------------------------- sale transaction

\* sellItem's checks on the item document it read, in the handler's order
SellRejection(item, caller, quantitySold) ==
    IF ~item.exists THEN [status |-> 404, msg |-> "itemNotFound"]
    ELSE IF item.seller # caller THEN [status |-> 403, msg |-> "notOwner"]
    ELSE IF ~item.isActive THEN [status |-> 400, msg |-> "inactive"]
    ELSE IF quantitySold > item.quantity THEN [status |-> 400, msg |-> "insufficient"]
    ELSE [status |-> 0, msg |-> "pass"]

\* validateSellItem, Item.findById and the checks up to the quantity check
SellFind(p, caller, itemId, quantitySold, buyerId) ==
    /\ Idle(p) /\ Authenticated(caller)
    /\ receiptSeq + PendingSales < MaxReceipts
    /\ IF quantitySold <= 0
         THEN /\ Reply([op |-> "sell", slot |-> p, status |-> 400, msg |-> "validation"])
              /\ UNCHANGED req
       ELSE LET out == SellRejection(items[itemId], caller, quantitySold) IN
            IF out.status # 0
              THEN /\ Reply([op |-> "sell", slot |-> p, status |-> out.status, msg |-> out.msg])
                   /\ UNCHANGED req
              ELSE /\ req' = [req EXCEPT ![p] = [op |-> "sell", pc |-> "buyer", itemId |-> itemId,
                                                 item |-> items[itemId],
                                                 quantitySold |-> quantitySold,
                                                 buyerId |-> buyerId]]
                   /\ UNCHANGED last
    /\ UNCHANGED itemVars
    /\ UNCHANGED authVars
    /\ UNCHANGED imageVars
    /\ UNCHANGED cartVars
    /\ UNCHANGED connVars

\* the Receipt sellItem builds from the item document it read
NewReceipt(id, itemId, item, quantitySold, buyerId) ==
    [id |-> id, item |-> itemId, seller |-> item.seller, buyer |-> buyerId,
     itemPrice |-> item.itemPrice, quantitySold |-> quantitySold,
     totalAmount |-> item.itemPrice * quantitySold]

\* sellItem saving the receipt before it has looked the buyer up
SellBuyerAfterReceipt(p) ==
    /\ req[p].op = "sell" /\ req[p].pc = "buyer"
    /\ IF req[p].buyerId \notin AccountIds \/ ~accounts[req[p].buyerId].exists
         THEN /\ receipts' = receipts \cup {NewReceipt(receiptSeq + 1, req[p].itemId, req[p].item,
                                                       req[p].quantitySold, req[p].buyerId)}
              /\ receiptSeq' = receiptSeq + 1
              /\ Reply([op |-> "sell", slot |-> p, status |-> 404, msg |-> "buyerNotFound"])
              /\ req' = [req EXCEPT ![p] = IdleReq]
         ELSE /\ req' = [req EXCEPT ![p].pc = "saveReceipt"]
              /\ UNCHANGED <<last, receipts, receiptSeq>>
    /\ UNCHANGED <<items, itemSeq, stockTaken>>
    /\ UNCHANGED authVars
    /\ UNCHANGED imageVars
    /\ UNCHANGED cartVars
    /\ UNCHANGED connVars

\* Account.findById(buyerId), then totalAmount and the Receipt built in memory
SellBuyer(p) ==
    /\ req[p].op = "sell" /\ req[p].pc = "buyer"
    /\ IF req[p].buyerId \notin AccountIds \/ ~accounts[req[p].buyerId].exists
         THEN /\ Reply([op |-> "sell", slot |-> p, status |-> 404, msg |-> "buyerNotFound"])
              /\ req' = [req EXCEPT ![p] = IdleReq]
         ELSE /\ req' = [req EXCEPT ![p].pc = "saveReceipt"]
              /\ UNCHANGED last
    /\ UNCHANGED itemVars
    /\ UNCHANGED authVars
    /\ UNCHANGED imageVars
    /\ UNCHANGED cartVars
    /\ UNCHANGED connVars

\* await receipt.save(); ok is whether the database took the write
SellReceipt(p, ok) ==
    /\ req[p].op = "sell" /\ req[p].pc = "saveReceipt"
    /\ IF ok
         THEN /\ receipts' = receipts \cup {NewReceipt(receiptSeq + 1, req[p].itemId, req[p].item,
                                                       req[p].quantitySold, req[p].buyerId)}
              /\ receiptSeq' = receiptSeq + 1
              /\ req' = [req EXCEPT ![p] = [op |-> "sold", pc |-> "saveItem",
                                            itemId |-> req[p].itemId, item |-> req[p].item,
                                            quantitySold |-> req[p].quantitySold,
                                            receiptId |-> receiptSeq + 1]]
              /\ UNCHANGED last
         ELSE /\ Reply([op |-> "sell", slot |-> p, status |-> 500, msg |-> "receiptSaveFailed"])
              /\ req' = [req EXCEPT ![p] = IdleReq]
              /\ UNCHANGED <<receipts, receiptSeq>>
    /\ UNCHANGED <<items, itemSeq, stockTaken>>
    /\ UNCHANGED authVars
    /\ UNCHANGED imageVars
    /\ UNCHANGED cartVars
    /\ UNCHANGED connVars

\* the deactivation test written as quantity < 0
SoldItemStrictTest(item, quantitySold) ==
    [item EXCEPT !.quantity = item.quantity - quantitySold,
                 !.isActive = IF item.quantity - quantitySold < 0 THEN FALSE ELSE item.isActive]

\* item.quantity -= quantitySold; if (item.quantity <= 0) item.isActive = false
SoldItem(item, quantitySold) ==
    [item EXCEPT !.quantity = item.quantity - quantitySold,
                 !.isActive = IF item.quantity - quantitySold <= 0 THEN FALSE ELSE item.isActive]

\* the stock write as a decrement of the stored quantity, unvalidated
SellItemSaveDecrement(p, ok) ==
    /\ req[p].op = "sold" /\ req[p].pc = "saveItem"
    /\ LET i == req[p].itemId
       IN  IF ok /\ items[i].exists
             THEN /\ items' = [items EXCEPT ![i].quantity = @ - req[p].quantitySold]
                  /\ stockTaken' = stockTaken \cup {req[p].receiptId}
                  /\ req' = [req EXCEPT ![p].pc = "populate"]
                  /\ UNCHANGED last
             ELSE /\ Reply([op |-> "sell", slot |-> p, status |-> 500, msg |-> "itemSaveFailed"])
                  /\ req' = [req EXCEPT ![p] = IdleReq]
                  /\ UNCHANGED <<items, stockTaken>>
    /\ UNCHANGED <<itemSeq, receipts, receiptSeq>>
    /\ UNCHANGED authVars
    /\ UNCHANGED imageVars
    /\ UNCHANGED cartVars
    /\ UNCHANGED connVars

\* await item.save(): validates the document in memory, writes its changed
\* paths, and throws when the document has gone; ok as for the receipt
SellItemSave(p, ok) ==
    /\ req[p].op = "sold" /\ req[p].pc = "saveItem"
    /\ LET i == req[p].itemId
           sold == SoldItem(req[p].item, req[p].quantitySold)
       IN  IF ok /\ items[i].exists /\ sold.quantity >= 0
             THEN /\ items' = [items EXCEPT ![i] =
                                 [@ EXCEPT !.quantity = sold.quantity,
                                           !.isActive = IF sold.isActive # req[p].item.isActive
                                                          THEN sold.isActive ELSE @]]
                  /\ stockTaken' = stockTaken \cup {req[p].receiptId}
                  /\ req' = [req EXCEPT ![p].pc = "populate"]
                  /\ UNCHANGED last
             ELSE /\ Reply([op |-> "sell", slot |-> p, status |-> 500, msg |-> "itemSaveFailed"])
                  /\ req' = [req EXCEPT ![p] = IdleReq]
                  /\ UNCHANGED <<items, stockTaken>>
    /\ UNCHANGED <<itemSeq, receipts, receiptSeq>>
    /\ UNCHANGED authVars
    /\ UNCHANGED imageVars
    /\ UNCHANGED cartVars
    /\ UNCHANGED connVars

\* receipt.populate(...) and the 201
SellRespond(p) ==
    /\ req[p].op = "sold" /\ req[p].pc = "populate"
    /\ Reply([op |-> "sell", slot |-> p, status |-> 201, msg |-> "sold",
              receiptId |-> req[p].receiptId])
    /\ req' = [req EXCEPT ![p] = IdleReq]
    /\ UNCHANGED itemVars
    /\ UNCHANGED authVars
    /\ UNCHANGED imageVars
    /\ UNCHANGED cartVars
    /\ UNCHANGED connVars

\* the catalogue is exercised from a state the account handlers reach: the
\* superadmin and an approved, verified seller both hold a token
InitItems ==
    /\ accounts = [a \in AccountIds |->
                     IF a = SuperAdminId
                       THEN [exists |-> TRUE, role |-> "superadmin", isVerified |-> TRUE,
                             sellerApprovalStatus |-> None, approvedBy |-> NoId,
                             approvedAt |-> NoId, password |-> 1]
                       ELSE [exists |-> TRUE, role |-> "seller", isVerified |-> TRUE,
                             sellerApprovalStatus |-> "approved", approvedBy |-> SuperAdminId,
                             approvedAt |-> 0, password |-> 1]]
    /\ otps = {}
    /\ otpSeq = 1
    /\ tokens = AccountIds
    /\ smsLog = 1
    /\ now = 0
    /\ req = [p \in Procs |-> IdleReq]
    /\ last = [op |-> "none"]
    /\ otpVerified = ContactNos
    /\ issued = [c \in ContactNos |-> 1]
    /\ items = [i \in ItemIds |-> NoItem]
    /\ itemSeq = 0
    /\ receipts = {}
    /\ receiptSeq = 0
    /\ stockTaken = {}
    /\ carts = {}
    /\ cartSeq = 0
    /\ images = {}
    /\ imageSeq = 0
    /\ NoConnection

NextItems ==
    \/ \E caller \in tokens, itemPrice \in Prices, quantity \in (0 - 1)..MaxStock :
          CreateItem(caller, itemPrice, quantity)
    \/ \E p \in Procs, caller \in tokens, itemId \in ItemIds, body \in UpdateBodies :
          UpdateFind(p, caller, itemId, body)
    \/ \E p \in Procs : UpdateWrite(p)
    \/ \E p \in Procs, caller \in tokens, itemId \in ItemIds, isActive \in BOOLEAN :
          StatusFind(p, caller, itemId, isActive)
    \/ \E p \in Procs : StatusSave(p)
    \/ \E p \in Procs, caller \in tokens, itemId \in ItemIds : DeleteFind(p, caller, itemId)
    \/ \E p \in Procs, ok \in BOOLEAN : DeleteImage(p, ok)
    \/ \E p \in Procs : DeleteRemove(p)
    \/ \E p \in Procs, caller \in tokens, itemId \in ItemIds,
          quantitySold \in 0..(MaxStock + 1), buyerId \in BuyerIds :
          SellFind(p, caller, itemId, quantitySold, buyerId)
    \/ \E p \in Procs : SellBuyer(p)
    \/ \E p \in Procs, ok \in BOOLEAN : SellReceipt(p, ok)
    \/ \E p \in Procs, ok \in BOOLEAN : SellItemSave(p, ok)
    \/ \E p \in Procs : SellRespond(p)

SpecItems == InitItems /\ [][NextItems]_vars

\* ------------------------------------------------- listing and image host
\* createItem step by step: validateItemCreation, the required-field check and
\* uploadImage(req.file); hasFile is whether the request carries an image, ok
\* whether the image host took it
CreateUpload(p, caller, itemPrice, quantity, hasFile, ok) ==
    /\ Idle(p) /\ Authenticated(caller)
    /\ itemSeq < MaxItems
    /\ IF quantity < 0 \/ itemPrice <= 0
         THEN /\ Reply([op |-> "createItem", slot |-> p, status |-> 400, msg |-> "validation",
                        uploaded |-> NoId, cleanups |-> 0])
              /\ UNCHANGED req
              /\ UNCHANGED imageVars
       ELSE IF ~hasFile \/ ~ok
         THEN /\ Reply([op |-> "createItem", slot |-> p, status |-> 400, msg |-> "uploadFailed",
                        uploaded |-> NoId, cleanups |-> 0])
              /\ UNCHANGED req
              /\ UNCHANGED imageVars
         ELSE /\ imageSeq < MaxImages
              /\ images' = images \cup {imageSeq + 1}
              /\ imageSeq' = imageSeq + 1
              /\ req' = [req EXCEPT ![p] = [op |-> "createItem", pc |-> "save", caller |-> caller,
                                            itemPrice |-> itemPrice, quantity |-> quantity,
                                            publicId |-> imageSeq + 1, cleanups |-> 0,
                                            itemId |-> NoId]]
              /\ UNCHANGED last
    /\ UNCHANGED itemVars
    /\ UNCHANGED authVars
    /\ UNCHANGED cartVars
    /\ UNCHANGED connVars

\* item.save(); ok is whether the database took the write
CreateSave(p, ok) ==
    /\ req[p].op = "createItem" /\ req[p].pc = "save"
    /\ IF ok
         THEN /\ itemSeq < MaxItems
              /\ items' = [items EXCEPT ![itemSeq + 1] =
                             [exists |-> TRUE, seller |-> req[p].caller,
                              itemPrice |-> req[p].itemPrice, quantity |-> req[p].quantity,
                              isActive |-> TRUE, imagePublicId |-> req[p].publicId]]
              /\ itemSeq' = itemSeq + 1
              /\ req' = [req EXCEPT ![p].pc = "populate", ![p].itemId = itemSeq + 1]
         ELSE /\ req' = [req EXCEPT ![p].pc = "cleanup"]
              /\ UNCHANGED <<items, itemSeq>>
    /\ UNCHANGED <<last, receipts, receiptSeq, stockTaken>>
    /\ UNCHANGED authVars
    /\ UNCHANGED imageVars
    /\ UNCHANGED cartVars
    /\ UNCHANGED connVars

\* the catch around item.save(): deleteImage(cloudinaryResult.publicId) in its
\* own try/catch, then throw saveError
CreateCleanup(p, ok) ==
    /\ req[p].op = "createItem" /\ req[p].pc = "cleanup"
    /\ images' = IF ok THEN images \ {req[p].publicId} ELSE images
    /\ UNCHANGED imageSeq
    /\ Reply([op |-> "createItem", slot |-> p, status |-> 500, msg |-> "saveFailed",
              uploaded |-> req[p].publicId, cleanups |-> req[p].cleanups + 1])
    /\ req' = [req EXCEPT ![p] = IdleReq]
    /\ UNCHANGED itemVars
    /\ UNCHANGED authVars
    /\ UNCHANGED cartVars
    /\ UNCHANGED connVars

\* item.populate("seller", ...) and the 201 response; a failed populate goes
\* to the outer catch
CreatePopulate(p, ok) ==
    /\ req[p].op = "createItem" /\ req[p].pc = "populate"
    /\ Reply([op |-> "createItem", slot |-> p, status |-> IF ok THEN 201 ELSE 500,
              msg |-> IF ok THEN "created" ELSE "populateFailed",
              uploaded |-> req[p].publicId, cleanups |-> req[p].cleanups])
    /\ req' = [req EXCEPT ![p] = IdleReq]
    /\ UNCHANGED itemVars
    /\ UNCHANGED authVars
    /\ UNCHANGED imageVars
    /\ UNCHANGED cartVars
    /\ UNCHANGED connVars

NextListing ==
    \/ \E p \in AuthProcs, caller \in tokens, itemPrice \in Prices, quantity \in (0 - 1)..1,
          hasFile \in BOOLEAN, ok \in BOOLEAN :
          CreateUpload(p, caller, itemPrice, quantity, hasFile, ok)
    \/ \E p \in AuthProcs, ok \in BOOLEAN : CreateSave(p, ok)
    \/ \E p \in AuthProcs, ok \in BOOLEAN : CreateCleanup(p, ok)
    \/ \E p \in AuthProcs, ok \in BOOLEAN : CreatePopulate(p, ok)
    \/ \E p \in AuthProcs, caller \in tokens, itemId \in ItemIds, body \in ListingBodies :
          UpdateFind(p, caller, itemId, body)
    \/ \E p \in AuthProcs, ok \in BOOLEAN : UpdateOldImage(p, ok)
    \/ \E p \in AuthProcs, ok \in BOOLEAN : UpdateUpload(p, ok)
    \/ \E p \in AuthProcs : UpdateWrite(p)
    \/ \E p \in AuthProcs, caller \in tokens, itemId \in ItemIds, isActive \in BOOLEAN :
          StatusFind(p, caller, itemId, isActive)
    \/ \E p \in AuthProcs : StatusSave(p)
    \/ \E p \in AuthProcs, caller \in tokens, itemId \in ItemIds : DeleteFind(p, caller, itemId)
    \/ \E p \in AuthProcs, ok \in BOOLEAN : DeleteImage(p, ok)
    \/ \E p \in AuthProcs : DeleteRemove(p)
    \/ \E p \in AuthProcs, caller \in tokens, itemId \in ItemIds,
          quantitySold \in 0..1, buyerId \in BuyerIds :
          SellFind(p, caller, itemId, quantitySold, buyerId)
    \/ \E p \in AuthProcs : SellBuyer(p)
    \/ \E p \in AuthProcs, ok \in BOOLEAN : SellReceipt(p, ok)
    \/ \E p \in AuthProcs, ok \in BOOLEAN : SellItemSave(p, ok)
    \/ \E p \in AuthProcs : SellRespond(p)

SpecListing == InitItems /\ [][NextListing]_vars

\* ---------------------------------------------------------------------- cart
\* The cart routes put authenticateToken in front of every handler, which then
\* reads req.user.id.
CartRoute(tok) == Authenticated(tok)

\* Cart.findOne({ user }): the documents it may answer with
CartsOf(u) == {c \in carts : c.user = u}

\* cartSchema.methods.findItem: position of the first line for the item, 0 if none
FindItem(lines, itemId) ==
    IF \E k \in 1..Len(lines) : lines[k].item = itemId
      THEN CHOOSE k \in 1..Len(lines) :
              /\ lines[k].item = itemId
              /\ \A j \in 1..(k - 1) : lines[j].item # itemId
      ELSE 0

\* cartSchema.methods.removeItem: the lines of every other item, in order
RECURSIVE RemoveItem(_, _)
RemoveItem(lines, itemId) ==
    IF lines = <<>> THEN <<>>
    ELSE IF Head(lines).item = itemId THEN RemoveItem(Tail(lines), itemId)
    ELSE <<Head(lines)>> \o RemoveItem(Tail(lines), itemId)

\* the stored cart document with the given _id, changed by f
WriteCart(id, newItems, newV) ==
    carts' = {IF c.id = id THEN [c EXCEPT !.items = newItems, !.v = newV] ELSE c : c \in carts}

StoredCart(id) == CHOOSE c \in carts : c.id = id

\* addToCart up to Item.findById and the checks on the item
AddFind(p, caller, itemId, quantity) ==
    /\ Idle(p) /\ CartRoute(caller)
    /\ IF quantity <= 0
         THEN /\ Reply([op |-> "addToCart", slot |-> p, status |-> 400, msg |-> "quantity"])
              /\ UNCHANGED req
       ELSE IF ~items[itemId].exists
         THEN /\ Reply([op |-> "addToCart", slot |-> p, status |-> 404, msg |-> "notFound"])
              /\ UNCHANGED req
       ELSE IF ~items[itemId].isActive
         THEN /\ Reply([op |-> "addToCart", slot |-> p, status |-> 400, msg |-> "inactive"])
              /\ UNCHANGED req
       ELSE IF quantity > items[itemId].quantity
         THEN /\ Reply([op |-> "addToCart", slot |-> p, status |-> 400, msg |-> "insufficient"])
              /\ UNCHANGED req
       ELSE IF items[itemId].seller = caller
         THEN /\ Reply([op |-> "addToCart", slot |-> p, status |-> 400, msg |-> "ownItem"])
              /\ UNCHANGED req
         ELSE /\ req' = [req EXCEPT ![p] = [op |-> "addToCart", pc |-> "cart", caller |-> caller,
                                            itemId |-> itemId, quantity |-> quantity,
                                            item |-> items[itemId]]]
              /\ UNCHANGED last
    /\ UNCHANGED cartVars
    /\ UNCHANGED itemVars
    /\ UNCHANGED authVars
    /\ UNCHANGED imageVars
    /\ UNCHANGED connVars

\* Cart.findOne, new Cart when there is none, findItem and the change made to
\* the document in memory: a line pushed, or the found line's quantity raised
AddCart(p) ==
    /\ req[p].op = "addToCart" /\ req[p].pc = "cart"
    /\ LET r == req[p] IN
       IF CartsOf(r.caller) = {}
         THEN /\ req' = [req EXCEPT ![p] = [op |-> "addToCart", pc |-> "save", caller |-> r.caller,
                                            itemId |-> r.itemId, quantity |-> r.quantity,
                                            write |-> "insert", cartId |-> NoId, v |-> 0,
                                            line |-> 0]]
              /\ UNCHANGED last
         ELSE \E c \in CartsOf(r.caller) :
                LET k == FindItem(c.items, r.itemId) IN
                IF k = 0
                  THEN /\ req' = [req EXCEPT ![p] =
                                    [op |-> "addToCart", pc |-> "save", caller |-> r.caller,
                                     itemId |-> r.itemId, quantity |-> r.quantity,
                                     write |-> "push", cartId |-> c.id, v |-> c.v, line |-> 0]]
                       /\ UNCHANGED last
                ELSE IF c.items[k].quantity + r.quantity > r.item.quantity
                  THEN /\ Reply([op |-> "addToCart", slot |-> p, status |-> 400, msg |-> "exceeds"])
                       /\ req' = [req EXCEPT ![p] = IdleReq]
                  ELSE /\ req' = [req EXCEPT ![p] =
                                    [op |-> "addToCart", pc |-> "save", caller |-> r.caller,
                                     itemId |-> r.itemId,
                                     quantity |-> c.items[k].quantity + r.quantity,
                                     write |-> "set", cartId |-> c.id, v |-> c.v, line |-> k]]
                       /\ UNCHANGED last
    /\ UNCHANGED cartVars
    /\ UNCHANGED itemVars
    /\ UNCHANGED authVars
    /\ UNCHANGED imageVars
    /\ UNCHANGED connVars

\* cart.save(): a new document is inserted under the unique index on user; a
\* pushed line is sent as $push with a version increment and no version
\* filter; a changed quantity is sent as $set on the line's position, filtered
\* on the version that was read
AddSave(p) ==
    /\ req[p].op = "addToCart" /\ req[p].pc = "save"
    /\ LET r == req[p] IN
       CASE r.write = "insert" ->
              IF CartsOf(r.caller) # {}
                THEN /\ Reply([op |-> "addToCart", slot |-> p, status |-> 500, msg |-> "duplicateKey"])
                     /\ UNCHANGED cartVars
                ELSE /\ carts' = carts \cup {[id |-> cartSeq + 1, user |-> r.caller, v |-> 0,
                                              items |-> <<[item |-> r.itemId,
                                                           quantity |-> r.quantity]>>]}
                     /\ cartSeq' = cartSeq + 1
                     /\ Reply([op |-> "addToCart", slot |-> p, status |-> 200, msg |-> "added",
                               user |-> r.caller, itemId |-> r.itemId, quantity |-> r.quantity])
         [] r.write = "push" ->
              /\ StoredCart(r.cartId).v < MaxVersion
              /\ WriteCart(r.cartId,
                           Append(StoredCart(r.cartId).items,
                                  [item |-> r.itemId, quantity |-> r.quantity]),
                           StoredCart(r.cartId).v + 1)
              /\ UNCHANGED cartSeq
              /\ Reply([op |-> "addToCart", slot |-> p, status |-> 200, msg |-> "added",
                        user |-> r.caller, itemId |-> r.itemId, quantity |-> r.quantity])
         [] r.write = "set" ->
              IF StoredCart(r.cartId).v # r.v
                THEN /\ Reply([op |-> "addToCart", slot |-> p, status |-> 500, msg |-> "versionError"])
                     /\ UNCHANGED cartVars
                ELSE /\ WriteCart(r.cartId,
                                  [StoredCart(r.cartId).items EXCEPT ![r.line].quantity = r.quantity],
                                  r.v)
                     /\ UNCHANGED cartSeq
                     /\ Reply([op |-> "addToCart", slot |-> p, status |-> 200, msg |-> "updated",
                               user |-> r.caller, itemId |-> r.itemId, quantity |-> r.quantity])
    /\ req' = [req EXCEPT ![p] = IdleReq]
    /\ UNCHANGED itemVars
    /\ UNCHANGED authVars
    /\ UNCHANGED imageVars
    /\ UNCHANGED connVars

\* removeFromCart up to cart.removeItem: Cart.findOne and findItem
RemoveFind(p, caller, itemId) ==
    /\ Idle(p) /\ CartRoute(caller)
    /\ IF CartsOf(caller) = {}
         THEN /\ Reply([op |-> "removeFromCart", slot |-> p, status |-> 404, msg |-> "noCart"])
              /\ UNCHANGED req
         ELSE \E c \in CartsOf(caller) :
                IF FindItem(c.items, itemId) = 0
                  THEN /\ Reply([op |-> "removeFromCart", slot |-> p, status |-> 404,
                                 msg |-> "noLine"])
                       /\ UNCHANGED req
                  ELSE /\ req' = [req EXCEPT ![p] =
                                    [op |-> "removeFromCart", pc |-> "save", caller |-> caller,
                                     itemId |-> itemId, cartId |-> c.id, v |-> c.v,
                                     items |-> RemoveItem(c.items, itemId)]]
                       /\ UNCHANGED last
    /\ UNCHANGED cartVars
    /\ UNCHANGED itemVars
    /\ UNCHANGED authVars
    /\ UNCHANGED imageVars
    /\ UNCHANGED connVars

\* cart.save() after the items array was replaced: $set of the whole array,
\* filtered on the version that was read, with a version increment
ReplaceSave(p, op) ==
    /\ req[p].op = op /\ req[p].pc = "save"
    /\ LET r == req[p] IN
       IF StoredCart(r.cartId).v # r.v
         THEN /\ Reply([op |-> op, slot |-> p, status |-> 500, msg |-> "versionError"])
              /\ UNCHANGED cartVars
         ELSE /\ r.v < MaxVersion
              /\ WriteCart(r.cartId, r.items, r.v + 1)
              /\ UNCHANGED cartSeq
              /\ Reply([op |-> op, slot |-> p, status |-> 200, msg |-> "saved"])
    /\ req' = [req EXCEPT ![p] = IdleReq]
    /\ UNCHANGED itemVars
    /\ UNCHANGED authVars
    /\ UNCHANGED imageVars
    /\ UNCHANGED connVars

RemoveSave(p) == ReplaceSave(p, "removeFromCart")

\* updateCartItem reading the item before it looks at the quantity
UpdateCartFindItemFirst(p, caller, itemId, quantity) ==
    /\ Idle(p) /\ CartRoute(caller)
    /\ IF quantity < 0
         THEN /\ Reply([op |-> "updateCartItem", slot |-> p, status |-> 400, msg |-> "quantity"])
              /\ UNCHANGED req
       ELSE IF CartsOf(caller) = {}
         THEN /\ Reply([op |-> "updateCartItem", slot |-> p, status |-> 404, msg |-> "noCart"])
              /\ UNCHANGED req
         ELSE \E c \in CartsOf(caller) :
                LET k == FindItem(c.items, itemId) IN
                IF k = 0
                  THEN /\ Reply([op |-> "updateCartItem", slot |-> p, status |-> 404,
                                 msg |-> "noLine"])
                       /\ UNCHANGED req
                ELSE IF quantity = 0 /\ ~items[itemId].exists
                  THEN /\ Reply([op |-> "updateCartItem", slot |-> p, status |-> 404,
                                 msg |-> "notFound"])
                       /\ UNCHANGED req
                ELSE IF quantity = 0 /\ ~items[itemId].isActive
                  THEN /\ Reply([op |-> "updateCartItem", slot |-> p, status |-> 400,
                                 msg |-> "inactive"])
                       /\ UNCHANGED req
                ELSE IF quantity = 0
                  THEN /\ req' = [req EXCEPT ![p] =
                                    [op |-> "updateCartItem", pc |-> "save", caller |-> caller,
                                     itemId |-> itemId, cartId |-> c.id, v |-> c.v,
                                     write |-> "replace", line |-> 0, quantity |-> 0,
                                     items |-> RemoveItem(c.items, itemId)]]
                       /\ UNCHANGED last
                  ELSE /\ req' = [req EXCEPT ![p] =
                                    [op |-> "updateCartItem", pc |-> "item", caller |-> caller,
                                     itemId |-> itemId, cartId |-> c.id, v |-> c.v,
                                     write |-> "set", line |-> k, quantity |-> quantity,
                                     items |-> c.items]]
                       /\ UNCHANGED last
    /\ UNCHANGED cartVars
    /\ UNCHANGED itemVars
    /\ UNCHANGED authVars
    /\ UNCHANGED imageVars
    /\ UNCHANGED connVars

\* updateCartItem up to the quantity test: the checks on the body, Cart.findOne,
\* findItem, and for quantity 0 cart.removeItem
UpdateCartFind(p, caller, itemId, quantity) ==
    /\ Idle(p) /\ CartRoute(caller)
    /\ IF quantity < 0
         THEN /\ Reply([op |-> "updateCartItem", slot |-> p, status |-> 400, msg |-> "quantity"])
              /\ UNCHANGED req
       ELSE IF CartsOf(caller) = {}
         THEN /\ Reply([op |-> "updateCartItem", slot |-> p, status |-> 404, msg |-> "noCart"])
              /\ UNCHANGED req
         ELSE \E c \in CartsOf(caller) :
                LET k == FindItem(c.items, itemId) IN
                IF k = 0
                  THEN /\ Reply([op |-> "updateCartItem", slot |-> p, status |-> 404,
                                 msg |-> "noLine"])
                       /\ UNCHANGED req
                ELSE IF quantity = 0
                  THEN /\ req' = [req EXCEPT ![p] =
                                    [op |-> "updateCartItem", pc |-> "save", caller |-> caller,
                                     itemId |-> itemId, cartId |-> c.id, v |-> c.v,
                                     write |-> "replace", line |-> 0, quantity |-> 0,
                                     items |-> RemoveItem(c.items, itemId)]]
                       /\ UNCHANGED last
                  ELSE /\ req' = [req EXCEPT ![p] =
                                    [op |-> "updateCartItem", pc |-> "item", caller |-> caller,
                                     itemId |-> itemId, cartId |-> c.id, v |-> c.v,
                                     write |-> "set", line |-> k, quantity |-> quantity,
                                     items |-> c.items]]
                       /\ UNCHANGED last
    /\ UNCHANGED cartVars
    /\ UNCHANGED itemVars
    /\ UNCHANGED authVars
    /\ UNCHANGED imageVars
    /\ UNCHANGED connVars

\* updateCartItem for a positive quantity: Item.findById and the checks on the
\* item, then cart.updateItemQuantity on the document in memory
UpdateCartItemCheck(p) ==
    /\ req[p].op = "updateCartItem" /\ req[p].pc = "item"
    /\ LET r == req[p] IN
       IF ~items[r.itemId].exists
         THEN /\ Reply([op |-> "updateCartItem", slot |-> p, status |-> 404, msg |-> "notFound"])
              /\ req' = [req EXCEPT ![p] = IdleReq]
       ELSE IF ~items[r.itemId].isActive
         THEN /\ Reply([op |-> "updateCartItem", slot |-> p, status |-> 400, msg |-> "inactive"])
              /\ req' = [req EXCEPT ![p] = IdleReq]
       ELSE IF r.quantity > items[r.itemId].quantity
         THEN /\ Reply([op |-> "updateCartItem", slot |-> p, status |-> 400,
                        msg |-> "insufficient"])
              /\ req' = [req EXCEPT ![p] = IdleReq]
         ELSE /\ req' = [req EXCEPT ![p].pc = "save"]
              /\ UNCHANGED last
    /\ UNCHANGED cartVars
    /\ UNCHANGED itemVars
    /\ UNCHANGED authVars
    /\ UNCHANGED imageVars
    /\ UNCHANGED connVars

\* cart.save() of updateCartItem: the replaced array after removeItem, or a
\* $set on the line's position, filtered on the version that was read
UpdateCartSave(p) ==
    /\ req[p].op = "updateCartItem" /\ req[p].pc = "save"
    /\ IF req[p].write = "replace"
         THEN ReplaceSave(p, "updateCartItem")
         ELSE LET r == req[p] IN
              /\ IF StoredCart(r.cartId).v # r.v
                   THEN /\ Reply([op |-> "updateCartItem", slot |-> p, status |-> 500,
                                  msg |-> "versionError"])
                        /\ UNCHANGED cartVars
                   ELSE /\ WriteCart(r.cartId,
                                     [StoredCart(r.cartId).items EXCEPT
                                        ![r.line].quantity = r.quantity],
                                     r.v)
                        /\ UNCHANGED cartSeq
                        /\ Reply([op |-> "updateCartItem", slot |-> p, status |-> 200,
                                  msg |-> "updated"])
              /\ req' = [req EXCEPT ![p] = IdleReq]
              /\ UNCHANGED itemVars
              /\ UNCHANGED authVars
              /\ UNCHANGED imageVars
              /\ UNCHANGED connVars

\* clearCart up to cart.clearItems
ClearFind(p, caller) ==
    /\ Idle(p) /\ CartRoute(caller)
    /\ IF CartsOf(caller) = {}
         THEN /\ Reply([op |-> "clearCart", slot |-> p, status |-> 404, msg |-> "noCart"])
              /\ UNCHANGED req
         ELSE \E c \in CartsOf(caller) :
                /\ req' = [req EXCEPT ![p] =
                             [op |-> "clearCart", pc |-> "save", caller |-> caller,
                              cartId |-> c.id, v |-> c.v, items |-> <<>>]]
                /\ UNCHANGED last
    /\ UNCHANGED cartVars
    /\ UNCHANGED itemVars
    /\ UNCHANGED authVars
    /\ UNCHANGED imageVars
    /\ UNCHANGED connVars

ClearSave(p) == ReplaceSave(p, "clearCart")

\* the running totals of getCart's map over the populated lines: a line whose
\* item is gone is skipped; a line whose item's seller is gone makes
\* cartItem.item.seller._id throw
RECURSIVE GetCartFold(_, _)
GetCartFold(lines, acc) ==
    IF lines = <<>> \/ acc.threw THEN acc
    ELSE LET l == Head(lines)
             it == items[l.item]
         IN  IF ~it.exists THEN GetCartFold(Tail(lines), acc)
             ELSE IF ~accounts[it.seller].exists
               THEN [acc EXCEPT !.threw = TRUE,
                                !.cartTotal = @ + it.itemPrice * l.quantity]
             ELSE GetCartFold(Tail(lines),
                              [acc EXCEPT !.cartTotal = @ + it.itemPrice * l.quantity,
                                          !.sellerIds = @ \cup {it.seller}])

\* the running totals of getCartSummary's forEach: the seller is not populated
RECURSIVE SummaryFold(_, _)
SummaryFold(lines, acc) ==
    IF lines = <<>> THEN acc
    ELSE LET l == Head(lines)
             it == items[l.item]
         IN  IF ~it.exists THEN SummaryFold(Tail(lines), acc)
             ELSE SummaryFold(Tail(lines),
                              [acc EXCEPT !.cartTotal = @ + it.itemPrice * l.quantity,
                                          !.sellerIds = @ \cup {it.seller}])

NoTotals == [threw |-> FALSE, cartTotal |-> 0, sellerIds |-> {}]

\* cartSchema.virtual("cartTotal") over populated lines: a line whose item is
\* gone counts (undefined || 0) * quantity
RECURSIVE CartTotalVirtual(_)
CartTotalVirtual(lines) ==
    IF lines = <<>> THEN 0
    ELSE (IF items[Head(lines).item].exists THEN items[Head(lines).item].itemPrice ELSE 0)
            * Head(lines).quantity
         + CartTotalVirtual(Tail(lines))

\* getCart
GetCart(caller) ==
    /\ CartRoute(caller)
    /\ IF CartsOf(caller) = {}
         THEN Reply([op |-> "getCart", user |-> caller, status |-> 200, cartTotal |-> 0,
                     itemCount |-> 0, sellerCount |-> 0])
         ELSE \E c \in CartsOf(caller) :
                LET t == GetCartFold(c.items, NoTotals) IN
                IF t.threw
                  THEN Reply([op |-> "getCart", user |-> caller, status |-> 500,
                              cartTotal |-> 0, itemCount |-> 0, sellerCount |-> 0])
                  ELSE Reply([op |-> "getCart", user |-> caller, status |-> 200,
                              cartTotal |-> t.cartTotal, itemCount |-> Len(c.items),
                              sellerCount |-> Cardinality(t.sellerIds)])
    /\ UNCHANGED req
    /\ UNCHANGED cartVars
    /\ UNCHANGED itemVars
    /\ UNCHANGED authVars
    /\ UNCHANGED imageVars
    /\ UNCHANGED connVars

\* getCartSummary
GetCartSummary(caller) ==
    /\ CartRoute(caller)
    /\ IF CartsOf(caller) = {}
         THEN Reply([op |-> "getCartSummary", user |-> caller, status |-> 200, cartTotal |-> 0,
                     itemCount |-> 0, sellerCount |-> 0])
         ELSE \E c \in CartsOf(caller) :
                LET t == SummaryFold(c.items, NoTotals) IN
                Reply([op |-> "getCartSummary", user |-> caller, status |-> 200,
                       cartTotal |-> t.cartTotal, itemCount |-> Len(c.items),
                       sellerCount |-> Cardinality(t.sellerIds)])
    /\ UNCHANGED req
    /\ UNCHANGED cartVars
    /\ UNCHANGED itemVars
    /\ UNCHANGED authVars
    /\ UNCHANGED imageVars
    /\ UNCHANGED connVars

\* deleteAdminAccount behind authenticateToken and authorizeRoles("superadmin")
DeleteAdminAccount(caller, adminId) ==
    /\ Authenticated(caller)
    /\ IF accounts[caller].role # "superadmin"
         THEN /\ Reply([op |-> "deleteAdmin", status |-> 403, msg |-> "forbidden"])
              /\ UNCHANGED accounts
       ELSE IF ~(accounts[adminId].exists /\ accounts[adminId].role = "admin")
         THEN /\ Reply([op |-> "deleteAdmin", status |-> 404, msg |-> "notFound"])
              /\ UNCHANGED accounts
         ELSE /\ accounts' = [accounts EXCEPT ![adminId] = NoAccount]
              /\ Reply([op |-> "deleteAdmin", status |-> 200, msg |-> "deleted"])
    /\ UNCHANGED <<otps, otpSeq, tokens, smsLog, now, req, otpVerified, issued>>
    /\ UNCHANGED cartVars
    /\ UNCHANGED itemVars
    /\ UNCHANGED imageVars
    /\ UNCHANGED connVars

\* the cart is exercised from a state the item handlers reach: account 1,
\* an approved seller or an admin, has listed two items; it and the superadmin
\* hold a token
InitCart ==
    /\ \E ownerRole \in {"seller", "admin"} :
         accounts = [a \in AccountIds |->
                       IF a = SuperAdminId
                         THEN [exists |-> TRUE, role |-> "superadmin", isVerified |-> TRUE,
                               sellerApprovalStatus |-> None, approvedBy |-> NoId,
                               approvedAt |-> NoId, password |-> 1]
                       ELSE IF ownerRole = "seller"
                         THEN [exists |-> TRUE, role |-> "seller", isVerified |-> TRUE,
                               sellerApprovalStatus |-> "approved", approvedBy |-> SuperAdminId,
                               approvedAt |-> 0, password |-> 1]
                         ELSE [exists |-> TRUE, role |-> "admin", isVerified |-> TRUE,
                               sellerApprovalStatus |-> None, approvedBy |-> NoId,
                               approvedAt |-> NoId, password |-> 1]]
    /\ otps = {}
    /\ otpSeq = 1
    /\ tokens = AccountIds
    /\ smsLog = 1
    /\ now = 0
    /\ req = [p \in Procs |-> IdleReq]
    /\ last = [op |-> "none"]
    /\ otpVerified = ContactNos
    /\ issued = [c \in ContactNos |-> 1]
    /\ items = [i \in CartItemIds |->
                  [exists |-> TRUE, seller |-> 1, itemPrice |-> i + 1,
                   quantity |-> MaxStock, isActive |-> TRUE, imagePublicId |-> i]]
    /\ itemSeq = Cardinality(CartItemIds)
    /\ receipts = {}
    /\ receiptSeq = 0
    /\ stockTaken = {}
    /\ carts = {}
    /\ cartSeq = 0
    /\ images = CartItemIds
    /\ imageSeq = Cardinality(CartItemIds)
    /\ NoConnection

NextCart ==
    \/ \E p \in Procs, caller \in tokens, itemId \in CartItemIds, quantity \in 0..(MaxStock + 1) :
          AddFind(p, caller, itemId, quantity)
    \/ \E p \in Procs : AddCart(p)
    \/ \E p \in Procs : AddSave(p)
    \/ \E p \in AuthProcs, caller \in tokens, itemId \in CartItemIds : RemoveFind(p, caller, itemId)
    \/ \E p \in Procs : RemoveSave(p)
    \/ \E p \in AuthProcs, caller \in tokens : ClearFind(p, caller)
    \/ \E p \in Procs : ClearSave(p)
    \/ \E caller \in tokens : GetCart(caller)
    \/ \E caller \in tokens : GetCartSummary(caller)
    \/ \E p \in AuthProcs, caller \in tokens, itemId \in DeletedItemIds : DeleteFind(p, caller, itemId)
    \/ \E p \in Procs, ok \in BOOLEAN : DeleteImage(p, ok)
    \/ \E p \in Procs : DeleteRemove(p)
    \/ \E caller \in tokens, adminId \in ContactNos : DeleteAdminAccount(caller, adminId)

SpecCart == InitCart /\ [][NextCart]_vars

\* the cart while its lines are edited and the listed items change hands,
\* stock and status
NextCartEdit ==
    \/ \E p \in AuthProcs, caller \in tokens, itemId \in CartItemIds, quantity \in 1..MaxStock :
          AddFind(p, caller, itemId, quantity)
    \/ \E p \in AuthProcs : AddCart(p)
    \/ \E p \in AuthProcs : AddSave(p)
    \/ \E p \in AuthProcs, caller \in tokens, itemId \in CartItemIds : RemoveFind(p, caller, itemId)
    \/ \E p \in AuthProcs : RemoveSave(p)
    \/ \E p \in AuthProcs, caller \in tokens, itemId \in CartItemIds,
          quantity \in (0 - 1)..(MaxStock + 1) : UpdateCartFind(p, caller, itemId, quantity)
    \/ \E p \in AuthProcs : UpdateCartItemCheck(p)
    \/ \E p \in AuthProcs : UpdateCartSave(p)
    \/ \E p \in AuthProcs, caller \in tokens, itemId \in DeletedItemIds, isActive \in BOOLEAN :
          StatusFind(p, caller, itemId, isActive)
    \/ \E p \in AuthProcs : StatusSave(p)
    \/ \E p \in AuthProcs, caller \in tokens, itemId \in DeletedItemIds, body \in SellerBodies :
          UpdateFind(p, caller, itemId, body)
    \/ \E p \in AuthProcs : UpdateWrite(p)

SpecCartEdit == InitCart /\ [][NextCartEdit]_vars

\* ------------------------------------------------------------ properties
OtpsOf(c) == {o \in otps : o.userId = c}

\* C1: an account created by signup cannot authenticate before verifyOTP has
\* marked it verified: until then no token is signed for it, and the last
\* response is never a successful login or authenticated request of it.
C1_UnverifiedCannotAuthenticate ==
    \A c \in ContactNos :
        (accounts[c].exists /\ c \notin otpVerified) =>
            /\ ~accounts[c].isVerified
            /\ c \notin tokens
            /\ ~(/\ last.op \in {"login", "authenticate", "verifyOTP"}
                 /\ last.acct = c
                 /\ last.status = 200)

\* a login with the right password, turned away because the account is unverified
C1_Witness ==
    /\ last.op = "login" /\ last.acct \in ContactNos
    /\ last.pwOk /\ last.status = 401 /\ last.msg = "notVerified"
    /\ accounts[last.acct].exists /\ last.acct \notin otpVerified
    /\ OtpsOf(last.acct) # {}

\* C7: when verifyOTP compares the submitted digits against the account's
\* current OTP and the clock is past that OTP's expiresAt, the request is
\* rejected with 400, the account is left as it was and no token is signed.
C7_ExpiredOtpRejected ==
    [][\A p \in Procs :
         (/\ req[p].op = "verifyOTP" /\ req[p].pc = "otp"
          /\ req'[p] # req[p]
          /\ LatestOtps(req[p].c) # {}
          /\ \A o \in LatestOtps(req[p].c) : o.otp = req[p].code /\ now > o.expiresAt)
         => (/\ req'[p] = IdleReq
             /\ last'.op = "verifyOTP" /\ last'.status = 400
             /\ accounts' = accounts
             /\ tokens' = tokens)]_vars

\* the right digits, submitted after the expiry, were refused
C7_Witness ==
    /\ last.op = "verifyOTP" /\ last.status = 400 /\ last.msg = "invalidOrExpired"
    /\ last.code = last.otpRecord.otp
    /\ last.checkedAt > last.otpRecord.expiresAt
    /\ ~accounts[last.acct].isVerified

\* C8: resendOTP for an unverified account that has an OTP whose expiresAt is
\* still ahead of the clock answers 429 and leaves the OTP collection and the
\* SMS gateway untouched.
C8_ResendCooldown ==
    [][\A p \in Procs :
         (/\ req[p].op = "resend" /\ req[p].pc = "check"
          /\ req'[p] # req[p]
          /\ ~accounts[req[p].c].isVerified
          /\ \E o \in OtpsOf(req[p].c) : o.expiresAt > now)
         => (/\ req'[p] = IdleReq
             /\ last'.op = "resendOTP" /\ last'.status = 429
             /\ otps' = otps /\ otpSeq' = otpSeq
             /\ smsLog' = smsLog)]_vars

\* a resend was refused while the account's OTP was still running
C8_Witness ==
    /\ last.op = "resendOTP" /\ last.status = 429
    /\ ~accounts[last.acct].isVerified
    /\ \E o \in OtpsOf(last.acct) : o.expiresAt > now /\ o.createdAt < now
    /\ Idle(1)

\* C9: resendOTP for an unverified account whose OTP is due (or that has
\* none) goes ahead with an expiry 5 minutes after the clock; once its insert
\* is done the account's only OTP document is the new one, and verifyOTP
\* accepts no document but the one issued last.
C9_ResendSupersedes ==
    [][\A p \in Procs :
         /\ (/\ req[p].op = "resend" /\ req[p].pc = "check"
             /\ req'[p] # req[p]
             /\ \A o \in OtpsOf(req[p].c) : o.expiresAt <= now)
            => (/\ req'[p].op = "resend" /\ req'[p].pc = "delete"
                /\ req'[p].expiresAt = now + OtpTtlMinutes)
         /\ (req[p].op = "resend" /\ req[p].pc = "create" /\ req'[p] # req[p])
            => (/\ Cardinality({o \in otps' : o.userId = req[p].c}) = 1
                /\ \A o \in otps' : o.userId = req[p].c =>
                      /\ o.id \notin {x.id : x \in otps}
                      /\ o.id = issued'[req[p].c]
                      /\ o.otp = req[p].code
                      /\ o.expiresAt = req[p].expiresAt)
         /\ (req[p].op = "verifyOTP" /\ req[p].pc = "otp" /\ req'[p].pc = "save")
            => req'[p].otpRecord.id = issued[req[p].c]]_vars

\* a resend replaced an earlier OTP, and the earlier digits were then refused
C9_Witness ==
    /\ last.op = "verifyOTP" /\ last.status = 400 /\ last.msg = "invalidOrExpired"
    /\ last.otpRecord.id >= 2
    /\ last.otpRecord.id = issued[last.acct]
    /\ last.code # last.otpRecord.otp
    /\ last.checkedAt <= last.otpRecord.expiresAt
    /\ OtpsOf(last.acct) = {last.otpRecord}

\* C10: a login with the right password for a verified seller is answered
\* 401 "pending" while sellerApprovalStatus is pending, 401 "rejected" while
\* it is rejected, and 200 with a token once it is approved.
C10_SellerLoginGate ==
    [][\A a \in ContactNos :
         (/\ Login(a, accounts[a].password)
          /\ accounts[a].exists /\ accounts[a].isVerified
          /\ accounts[a].role = "seller")
         => /\ (accounts[a].sellerApprovalStatus = "pending"
                  => last'.status = 401 /\ last'.msg = "pending" /\ tokens' = tokens)
            /\ (accounts[a].sellerApprovalStatus = "rejected"
                  => last'.status = 401 /\ last'.msg = "rejected" /\ tokens' = tokens)
            /\ (accounts[a].sellerApprovalStatus = "approved"
                  => last'.status = 200 /\ a \in tokens')]_vars

\* a seller approved by the superadmin has logged in
C10_Witness ==
    /\ last.op = "login" /\ last.status = 200 /\ last.acct \in ContactNos
    /\ accounts[last.acct].role = "seller"
    /\ accounts[last.acct].sellerApprovalStatus = "approved"
    /\ accounts[last.acct].approvedBy = SuperAdminId

\* C2: two sell requests in flight together on one item, each having read the
\* same stock s with q1 <= s, q2 <= s and q1 + q2 > s, never both get as far
\* as a saved Receipt and a saved stock decrement.
C2_AtMostOneConcurrentSale ==
    \A p1, p2 \in Procs :
        (/\ p1 # p2
         /\ req[p1].op = "sold" /\ req[p2].op = "sold"
         /\ req[p1].itemId = req[p2].itemId
         /\ req[p1].item.quantity = req[p2].item.quantity
         /\ req[p1].quantitySold <= req[p1].item.quantity
         /\ req[p2].quantitySold <= req[p2].item.quantity
         /\ req[p1].quantitySold + req[p2].quantitySold > req[p1].item.quantity)
        => ~(/\ req[p1].pc = "populate" /\ req[p2].pc = "populate"
             /\ {req[p1].receiptId, req[p2].receiptId} \subseteq stockTaken
             /\ {req[p1].receiptId, req[p2].receiptId} \subseteq {r.id : r \in receipts})

\* C3: every persisted Receipt belongs to a sale whose stock decrement has
\* been saved or whose request is still on its way to saving it, and every
\* saved decrement has its Receipt.
C3_SaleAtomic ==
    /\ \A r \in receipts :
          \/ r.id \in stockTaken
          \/ \E p \in Procs : /\ req[p].op = "sold" /\ req[p].pc = "saveItem"
                               /\ req[p].receiptId = r.id
    /\ stockTaken \subseteq {r.id : r \in receipts}

\* C4: a sale of q from stock s that nothing interferes with inserts exactly
\* one Receipt, with quantitySold = q and totalAmount = itemPrice * q, and its
\* stock write leaves quantity = s - q, isActive = false when s - q <= 0 and
\* isActive as it was otherwise; no other step of the sale touches Receipts.
C4_SequentialSale ==
    [][\A p \in Procs :
         /\ (/\ req[p].op = "sell" /\ req[p].pc = "saveReceipt" /\ req'[p].op = "sold")
            => (/\ Cardinality(receipts') = Cardinality(receipts) + 1
                /\ receipts \subseteq receipts'
                /\ \A r \in receipts' \ receipts :
                      /\ r.id = req'[p].receiptId
                      /\ r.item = req[p].itemId
                      /\ r.quantitySold = req[p].quantitySold
                      /\ r.totalAmount = req[p].item.itemPrice * req[p].quantitySold)
         /\ (/\ req[p].op = "sold" /\ req[p].pc = "saveItem" /\ req'[p].pc = "populate"
             /\ items[req[p].itemId] = req[p].item)
            => LET i == req[p].itemId
                   s == items[i].quantity
                   q == req[p].quantitySold
               IN  /\ q <= s
                   /\ items'[i].quantity = s - q
                   /\ items'[i].isActive = (IF s - q <= 0 THEN FALSE ELSE items[i].isActive)
                   /\ items'[i].itemPrice = items[i].itemPrice
                   /\ receipts' = receipts
                   /\ \E r \in receipts :
                         /\ r.id = req[p].receiptId
                         /\ r.quantitySold = q
                         /\ r.totalAmount = items[i].itemPrice * q
         /\ (/\ req[p].op \in {"sell", "sold"} /\ req'[p] # req[p]
             /\ req[p].pc # "saveReceipt")
            => receipts' = receipts]_vars

\* the whole stock of an item was sold in one undisturbed sale
C4_Witness ==
    /\ last.op = "sell" /\ last.status = 201
    /\ \A p \in Procs : Idle(p)
    /\ \E r \in receipts :
          /\ receipts = {r}
          /\ r.id = last.receiptId /\ r.id \in stockTaken
          /\ r.quantitySold = MaxStock
          /\ r.totalAmount = r.itemPrice * MaxStock
          /\ items[r.item].exists
          /\ items[r.item].quantity = 0 /\ ~items[r.item].isActive

\* C5: a step that turns a sell request away (item absent, caller not the
\* owner, item inactive, quantity above the stock read, buyer absent) answers
\* with an error status and leaves the Item and Receipt collections as they were.
C5_RejectedSaleChangesNothing ==
    [][\A p \in Procs :
         (\/ /\ Idle(p) /\ req' = req /\ last' # last
             /\ last'.op = "sell" /\ last'.slot = p
             /\ last'.msg \in {"itemNotFound", "notOwner", "inactive", "insufficient"}
          \/ /\ req[p].op = "sell" /\ req[p].pc = "buyer" /\ req'[p] = IdleReq)
         => /\ last'.op = "sell" /\ last'.status \in {400, 403, 404}
            /\ items' = items
            /\ receipts' = receipts /\ receiptSeq' = receiptSeq]_vars

\* a sale was turned away for a missing buyer after the item checks had passed
C5_Witness ==
    /\ last.op = "sell" /\ last.status = 404 /\ last.msg = "buyerNotFound"
    /\ receipts = {} /\ receiptSeq = 0
    /\ \E i \in ItemIds : items[i].exists /\ items[i].isActive /\ items[i].quantity > 0

C11_UnapprovedSellerNeverAuthenticates ==
    \A c \in ContactNos :
        (/\ accounts[c].exists /\ accounts[c].role = "seller"
         /\ accounts[c].sellerApprovalStatus \in {"pending", "rejected"})
        => /\ c \notin tokens
           /\ ~(/\ last.op \in {"login", "verifyOTP", "authenticate"}
                /\ last.acct = c /\ last.status = 200)

C13_VerifiedExactlyOnce ==
    \A c \in ContactNos :
        (last.op = "verifyOTP" /\ last.acct = c /\ last.status = 200)
        => ~(\E p \in Procs : /\ req[p].op = "verifyOTP" /\ req[p].pc = "delete"
                               /\ req[p].c = c)

\* C14: no account ever has two OTP documents whose expiresAt is still ahead
\* of the clock.
C14_AtMostOneActiveOtp ==
    \A c \in ContactNos : Cardinality({o \in OtpsOf(c) : o.expiresAt > now}) <= 1

C17_UnverifiedDuplicateSignup ==
    [][\A p \in Procs, c \in ContactNos, role \in {"buyer", "seller"}, pw \in Passwords :
          (SignupUnique(p, c, role, pw) /\ accounts[c].exists) =>
             /\ last'.op = "signup" /\ last'.status \in {400, 409}
             /\ accounts' = accounts /\ otps' = otps
             /\ IF accounts[c].isVerified
                  THEN ~last'.accountNotVerified
                  ELSE last'.accountNotVerified /\ last'.contactNo = c]_vars

\* C18: an account has a sellerApprovalStatus exactly when its role is seller,
\* and an account without one has no approvedBy and no approvedAt; a seller
\* account that nobody has decided on is pending with no approver.
C18_ApprovalFieldsIffSeller ==
    \A a \in AccountIds :
        accounts[a].exists =>
            /\ (accounts[a].sellerApprovalStatus # None) <=> (accounts[a].role = "seller")
            /\ accounts[a].role # "seller" =>
                  (accounts[a].approvedBy = NoId /\ accounts[a].approvedAt = NoId)
            /\ (accounts[a].role = "seller" /\ accounts[a].sellerApprovalStatus = "pending") =>
                  (accounts[a].approvedBy = NoId /\ accounts[a].approvedAt = NoId)

\* C19: a Receipt, once stored, stays in the collection with every field as it
\* was written, whatever updateItem, setItemActiveStatus, deleteItem or a later
\* sale does to its item; no two receipts share an _id.
C19_ReceiptsImmutable ==
    [][/\ receipts \subseteq receipts'
       /\ \A r, q \in receipts' : r.id = q.id => r = q]_vars

\* two sales were recorded and the item was deleted afterwards
C19_Witness ==
    /\ Cardinality(receipts) = 2
    /\ last.op = "deleteItem" /\ last.status = 200
    /\ \A r \in receipts : ~items[r.item].exists

\* C20: createItem stores an item only for a caller whose role is seller, so
\* the seller of every stored item is an account with role seller.
C20_ItemsBelongToSellers ==
    \A i \in DOMAIN items :
        items[i].exists => accounts[items[i].seller].role = "seller"
\* ------------------------------------------------- how accounts come to be
\* createAdminAccount behind authenticateToken and authorizeRoles("superadmin"):
\* the uniqueness lookups
AdminFind(p, caller, c, pw) ==
    /\ Idle(p) /\ Authenticated(caller)
    /\ IF accounts[caller].role # "superadmin"
         THEN /\ Reply([op |-> "createAdmin", acct |-> c, status |-> 403, msg |-> "forbidden"])
              /\ UNCHANGED req
       ELSE IF accounts[c].exists
         THEN /\ Reply([op |-> "createAdmin", acct |-> c, status |-> 409, msg |-> "exists"])
              /\ UNCHANGED req
         ELSE /\ req' = [req EXCEPT ![p] = [op |-> "createAdmin", pc |-> "create",
                                            caller |-> caller, c |-> c, pw |-> pw]]
              /\ UNCHANGED last
    /\ UNCHANGED <<accounts, otps, otpSeq, tokens, smsLog, now, otpVerified, issued>>
    /\ UNCHANGED itemVars
    /\ UNCHANGED imageVars
    /\ UNCHANGED cartVars
    /\ UNCHANGED connVars

\* Account.create(adminData) with role "admin" and isVerified true, 201
AdminCreate(p) ==
    /\ req[p].op = "createAdmin" /\ req[p].pc = "create"
    /\ IF accounts[req[p].c].exists
         THEN /\ Reply([op |-> "createAdmin", acct |-> req[p].c, status |-> 500,
                        msg |-> "duplicateKey"])
              /\ UNCHANGED accounts
         ELSE /\ accounts' = [accounts EXCEPT ![req[p].c] =
                                [NewAccount("admin", req[p].pw) EXCEPT !.isVerified = TRUE]]
              /\ Reply([op |-> "createAdmin", acct |-> req[p].c, status |-> 201,
                        msg |-> "created"])
    /\ req' = [req EXCEPT ![p] = IdleReq]
    /\ UNCHANGED <<otps, otpSeq, tokens, smsLog, now, otpVerified, issued>>
    /\ UNCHANGED itemVars
    /\ UNCHANGED imageVars
    /\ UNCHANGED cartVars
    /\ UNCHANGED connVars

\* the roles the Account schema accepts
AccountRoles == {"buyer", "seller", "admin", "superadmin"}

\* POST /api/test/create-account, mounted with no middleware before it: the
\* lookup of an existing account
TestFind(p, c, role, isVerified, pw) ==
    /\ Idle(p)
    /\ IF accounts[c].exists
         THEN /\ Reply([op |-> "testCreate", acct |-> c, status |-> 409, msg |-> "exists"])
              /\ UNCHANGED req
         ELSE /\ req' = [req EXCEPT ![p] = [op |-> "testCreate", pc |-> "create", c |-> c,
                                            role |-> role, isVerified |-> isVerified,
                                            pw |-> pw]]
              /\ UNCHANGED last
    /\ UNCHANGED <<accounts, otps, otpSeq, tokens, smsLog, now, otpVerified, issued>>
    /\ UNCHANGED itemVars
    /\ UNCHANGED imageVars
    /\ UNCHANGED cartVars
    /\ UNCHANGED connVars

\* Account.create with the role and isVerified of the body, 201
TestCreate(p) ==
    /\ req[p].op = "testCreate" /\ req[p].pc = "create"
    /\ IF accounts[req[p].c].exists
         THEN /\ Reply([op |-> "testCreate", acct |-> req[p].c, status |-> 500,
                        msg |-> "duplicateKey"])
              /\ UNCHANGED accounts
         ELSE /\ accounts' = [accounts EXCEPT ![req[p].c] =
                                [NewAccount(req[p].role, req[p].pw) EXCEPT
                                   !.isVerified = req[p].isVerified]]
              /\ Reply([op |-> "testCreate", acct |-> req[p].c, status |-> 201,
                        msg |-> "created"])
    /\ req' = [req EXCEPT ![p] = IdleReq]
    /\ UNCHANGED <<otps, otpSeq, tokens, smsLog, now, otpVerified, issued>>
    /\ UNCHANGED itemVars
    /\ UNCHANGED imageVars
    /\ UNCHANGED cartVars
    /\ UNCHANGED connVars

\* every way an account is created, verified or removed, one request at a time
NextAccounts ==
    \/ \E p \in AuthProcs, c \in ContactNos, role \in {"buyer", "seller"}, pw \in Passwords :
          SignupUnique(p, c, role, pw)
    \/ \E p \in AuthProcs : SignupFind(p)
    \/ \E p \in AuthProcs, code \in OtpCodes : SignupCreate(p, code)
    \/ \E p \in AuthProcs : SignupOtp(p)
    \/ \E p \in AuthProcs, ok \in BOOLEAN : SignupSms(p, ok)
    \/ \E p \in AuthProcs, c \in ContactNos, code \in OtpCodes : VerifyFind(p, c, code)
    \/ \E p \in AuthProcs : VerifyCheck(p)
    \/ \E p \in AuthProcs : VerifySave(p)
    \/ \E p \in AuthProcs : VerifyFinish(p)
    \/ \E a \in AccountIds, pw \in LoginPasswords : Login(a, pw)
    \/ \E p \in AuthProcs, caller \in tokens, c \in ContactNos, pw \in Passwords :
          AdminFind(p, caller, c, pw)
    \/ \E p \in AuthProcs : AdminCreate(p)
    \/ \E caller \in tokens, adminId \in ContactNos : DeleteAdminAccount(caller, adminId)
    \/ \E p \in AuthProcs, c \in ContactNos, role \in AccountRoles, isVerified \in BOOLEAN,
          pw \in Passwords : TestFind(p, c, role, isVerified, pw)
    \/ \E p \in AuthProcs : TestCreate(p)
    \/ Tick

SpecAccounts == InitAuth /\ [][NextAccounts]_vars

\* ------------------------------------------------------ database connection
Cleared == [conn |-> FALSE, promise |-> NoId]

\* the calls of connectDB waiting on the promise of an attempt
AwaitersOf(id) == {p \in Procs : req[p].op = "connectDB" /\ req[p].promise = id}

\* connectDB up to its await: a cached connection that is ready is returned; one
\* that is not is dropped with its promise; with no promise cached
\* mongoose.connect is called and its promise cached; then the call waits on
\* the cached promise. On a connection that is open mongoose.connect resolves
\* at once, and the call goes on to return before any event is delivered.
ConnectCall(p) ==
    /\ Idle(p)
    /\ IF cached.conn /\ readyState = 1
         THEN /\ Reply([op |-> "connectDB", status |-> "existing", attempt |-> NoId,
                        sharers |-> {p}])
              /\ UNCHANGED req
              /\ UNCHANGED connVars
         ELSE LET kept == IF cached.conn THEN Cleared ELSE cached IN
              IF kept.promise = NoId
                THEN \E id \in 1..MaxAttempts :
                        /\ attempts[id] = "none"
                        /\ \A j \in 1..(id - 1) : attempts[j] # "none"
                        /\ IF readyState = 1
                             THEN /\ attempts' = [attempts EXCEPT ![id] = "resolved"]
                                  /\ cached' = [conn |-> TRUE, promise |-> id]
                                  /\ Reply([op |-> "connectDB", status |-> "connected",
                                            attempt |-> id, sharers |-> {p}])
                                  /\ UNCHANGED <<req, readyState>>
                             ELSE /\ attempts' = [attempts EXCEPT ![id] = "pending"]
                                  /\ cached' = [kept EXCEPT !.promise = id]
                                  /\ readyState' = 2
                                  /\ req' = [req EXCEPT ![p] = [op |-> "connectDB",
                                                                pc |-> "await",
                                                                promise |-> id]]
                                  /\ UNCHANGED last
                        /\ UNCHANGED listening
                ELSE /\ cached' = kept
                     /\ req' = [req EXCEPT ![p] = [op |-> "connectDB", pc |-> "await",
                                                   promise |-> kept.promise]]
                     /\ UNCHANGED <<last, attempts, readyState, listening>>
    /\ UNCHANGED authVars
    /\ UNCHANGED itemVars
    /\ UNCHANGED imageVars
    /\ UNCHANGED cartVars

\* the promise of an attempt settles and every call waiting on it resumes, in
\* the same turn of the event loop. connected: the then-callback registers the
\* handlers and each call stores and returns the connection. notReady: the
\* promise resolves but readyState is not 1 when the calls look; each stores
\* the connection, throws, and its catch clears the promise. failed: the
\* promise rejects, mongoose reports the connection disconnected to the
\* handlers already registered, and each call's catch clears the promise.
AttemptSettles(id, outcome) ==
    /\ attempts[id] = "pending"
    /\ readyState = 1 => outcome = "connected"
    /\ attempts' = [attempts EXCEPT ![id] = IF outcome = "failed" THEN "rejected"
                                                                 ELSE "resolved"]
    /\ readyState' = IF outcome = "connected" THEN 1 ELSE 0
    /\ listening' = (listening \/ outcome # "failed")
    /\ LET heard == IF listening /\ outcome # "connected" THEN Cleared ELSE cached IN
       cached' = IF AwaitersOf(id) = {} THEN heard
                 ELSE CASE outcome = "connected" -> [heard EXCEPT !.conn = TRUE]
                        [] outcome = "notReady" -> [conn |-> TRUE, promise |-> NoId]
                        [] outcome = "failed" -> [heard EXCEPT !.promise = NoId]
    /\ Reply([op |-> "connectDB", status |-> outcome, attempt |-> id,
              sharers |-> AwaitersOf(id)])
    /\ req' = [p \in Procs |-> IF p \in AwaitersOf(id) THEN IdleReq ELSE req[p]]
    /\ UNCHANGED authVars
    /\ UNCHANGED itemVars
    /\ UNCHANGED imageVars
    /\ UNCHANGED cartVars

\* the connection is lost: the disconnected handler clears the cache
ConnectionLost ==
    /\ readyState = 1 /\ listening
    /\ readyState' = 0
    /\ cached' = Cleared
    /\ UNCHANGED <<attempts, listening, req, last>>
    /\ UNCHANGED authVars
    /\ UNCHANGED itemVars
    /\ UNCHANGED imageVars
    /\ UNCHANGED cartVars

\* the connection reports an error and stays open: the error handler clears
\* the cache
ConnectionError ==
    /\ readyState = 1 /\ listening
    /\ cached' = Cleared
    /\ UNCHANGED <<attempts, readyState, listening, req, last>>
    /\ UNCHANGED authVars
    /\ UNCHANGED itemVars
    /\ UNCHANGED imageVars
    /\ UNCHANGED cartVars

\* closeConnection up to its await: nothing to do without a cached connection,
\* else mongoose.connection.close() is started
CloseCall(p) ==
    /\ Idle(p)
    /\ IF cached.conn
         THEN /\ readyState' = 3
              /\ req' = [req EXCEPT ![p] = [op |-> "closeConnection", pc |-> "close",
                                            promise |-> NoId]]
              /\ UNCHANGED last
         ELSE /\ Reply([op |-> "closeConnection", status |-> "nothing", attempt |-> NoId,
                        sharers |-> {p}])
              /\ UNCHANGED <<req, readyState>>
    /\ UNCHANGED <<cached, attempts, listening>>
    /\ UNCHANGED authVars
    /\ UNCHANGED itemVars
    /\ UNCHANGED imageVars
    /\ UNCHANGED cartVars

\* close() settles: on success the cache is cleared, on failure the error is
\* logged
CloseDone(p, ok) ==
    /\ req[p].op = "closeConnection"
    /\ IF ok
         THEN /\ readyState' = 0
              /\ cached' = Cleared
         ELSE UNCHANGED <<readyState, cached>>
    /\ Reply([op |-> "closeConnection", status |-> IF ok THEN "closed" ELSE "closeFailed",
              attempt |-> NoId, sharers |-> {p}])
    /\ req' = [req EXCEPT ![p] = IdleReq]
    /\ UNCHANGED <<attempts, listening>>
    /\ UNCHANGED authVars
    /\ UNCHANGED itemVars
    /\ UNCHANGED imageVars
    /\ UNCHANGED cartVars

NextConnect ==
    \/ \E p \in Procs : ConnectCall(p)
    \/ \E id \in 1..MaxAttempts, outcome \in {"connected", "notReady", "failed"} :
          AttemptSettles(id, outcome)
    \/ ConnectionLost
    \/ ConnectionError
    \/ \E p \in Procs : CloseCall(p)
    \/ \E p \in Procs, ok \in BOOLEAN : CloseDone(p, ok)

SpecConnect == InitAuth /\ [][NextConnect]_vars

\* ------------------------------------------------------------ claims C21-C30
\* the response of a handler that turned a caller away as not the owner, with
\* nothing written and no request left in progress
RefusedAsNotOwner(op) ==
    /\ last'.op = op /\ last'.status = 403 /\ last'.msg = "notOwner"
    /\ UNCHANGED <<items, itemSeq, images, imageSeq, receipts, receiptSeq, req>>

\* C21: updateItem, setActiveStatus, deleteItem and sell act on an item only for
\* the seller that owns it: a well-formed request of any other authenticated
\* caller on an existing item is answered Unauthorized, and the item record,
\* the image it refers to on the image host and the receipts stay as they were;
\* no request is left in progress that could write later.
C21_OnlyOwnerActs ==
    [][\A p \in Procs, caller \in AccountIds, itemId \in ItemIds :
          (items[itemId].exists /\ items[itemId].seller # caller) =>
             /\ \A body \in ListingBodies :
                   (ValidItemUpdate(body) /\ UpdateFind(p, caller, itemId, body))
                      => RefusedAsNotOwner("updateItem")
             /\ \A isActive \in BOOLEAN :
                   StatusFind(p, caller, itemId, isActive) => RefusedAsNotOwner("setActiveStatus")
             /\ DeleteFind(p, caller, itemId) => RefusedAsNotOwner("deleteItem")
             /\ \A quantitySold \in 1..MaxStock, buyerId \in BuyerIds :
                   SellFind(p, caller, itemId, quantitySold, buyerId) => RefusedAsNotOwner("sell")
      ]_vars

\* a caller that is not the owner has just been refused the deletion of an
\* item that has its image on the host, with a receipt already stored
C21_Witness ==
    /\ last.op = "deleteItem" /\ last.status = 403
    /\ \E i \in ItemIds : items[i].exists /\ items[i].imagePublicId \in images
    /\ receipts # {}


\* the quantity a cart holds of an item, over all of its lines
RECURSIVE CartQuantity(_, _)
CartQuantity(lines, itemId) ==
    IF lines = <<>> THEN 0
    ELSE (IF Head(lines).item = itemId THEN Head(lines).quantity ELSE 0)
         + CartQuantity(Tail(lines), itemId)

LineRemovals ==
    {[cartId |-> c.id, v |-> c.v, items |-> RemoveItem(c.items, i)] :
        c \in carts, i \in CartItemIds}

\* the request in slot p is about to save the write w with the named handler
AboutToSave(p, op, w) ==
    /\ req[p].op = op /\ req[p].pc = "save"
    /\ req[p].cartId = w.cartId /\ req[p].v = w.v /\ req[p].items = w.items

C25_FailedCreateCompensates ==
    [][(last' # last /\ last'.op = "createItem" /\ last'.status >= 400
        /\ last'.uploaded # NoId) =>
          /\ last'.cleanups = 1
          /\ \A i \in ItemIds : ~(items'[i].exists /\ items'[i].imagePublicId = last'.uploaded)
          /\ last'.msg = "saveFailed"
      ]_vars


\* C26: the SMS gateway's answer never decides signup or resendOTP: whether
\* sendOTP reports success or failure, the call is answered as a success, the
\* account and the OTPs stored before the send stay as they are, and smsSent in
\* the response is the gateway's result.
C26_SmsFailureIsNotAnError ==
    [][\A p \in Procs, ok \in BOOLEAN :
          /\ req[p].op = "signupSms" => ENABLED SignupSms(p, ok)
          /\ req[p].op = "resendSms" => ENABLED ResendSms(p, ok)
          /\ SignupSms(p, ok) =>
                /\ last'.op = "signup" /\ last'.status = 201 /\ last'.smsSent = ok
                /\ accounts'[req[p].c].exists
                /\ UNCHANGED <<accounts, otps, issued>>
          /\ ResendSms(p, ok) =>
                /\ last'.op = "resendOTP" /\ last'.status = 200 /\ last'.smsSent = ok
                /\ accounts'[req[p].c].exists
                /\ UNCHANGED <<accounts, otps, issued>>
      ]_vars

\* a signup answered 201 although the gateway failed, with the account and its
\* OTP stored
C26_Witness ==
    /\ last.op = "signup" /\ last.status = 201 /\ last.smsSent = FALSE
    /\ accounts[last.acct].exists
    /\ \E o \in otps : o.userId = last.acct /\ o.id = issued[last.acct]


\* C27: the seller of an item is fixed at creation: no step changes the
\* seller field of an item that exists before and after it.
C27_SellerNeverChanges ==
    [][\A i \in ItemIds :
          (items[i].exists /\ items'[i].exists) => items'[i].seller = items[i].seller
      ]_vars


\* C28: whenever updateItem answers, with whatever outcome, the image every
\* stored item refers to is still on the image host.
C28_UpdateKeepsImage ==
    [][(last' # last /\ last'.op = "updateItem") =>
          \A i \in ItemIds :
             (items'[i].exists /\ items'[i].imagePublicId # NoId)
                => items'[i].imagePublicId \in images'
      ]_vars


\* C29: accounts become verified or elevated only through the gated paths: a
\* step that leaves an account verified that was not so before is the save of
\* a successful verifyOTP for it or the create of a createAdminAccount sent by
\* a superadmin, and a step that leaves an account with the role admin or
\* superadmin that it had not before is such a create.
C29_VerifiedAndElevatedOnlyByGate ==
    [][\A a \in AccountIds :
          LET bySuperadmin == \E p \in Procs :
                                 /\ req[p].op = "createAdmin" /\ req[p].c = a
                                 /\ accounts[req[p].caller].role = "superadmin"
                                 /\ req'[p].op = "idle"
              byVerifyOTP == \E p \in Procs :
                                /\ req[p].op = "verifyOTP" /\ req[p].pc = "save"
                                /\ req[p].c = a /\ req'[p].pc = "delete"
          IN
          /\ (accounts'[a].exists /\ accounts'[a].isVerified
              /\ ~(accounts[a].exists /\ accounts[a].isVerified))
                => (bySuperadmin \/ byVerifyOTP)
          /\ (accounts'[a].exists /\ accounts'[a].role \in {"admin", "superadmin"}
              /\ ~(accounts[a].exists /\ accounts[a].role = accounts'[a].role))
                => bySuperadmin
      ]_vars


\* C30: connectDB keeps one connection attempt at most in flight: in every
\* state at most one promise of mongoose.connect is pending, the calls that
\* are waiting all wait on the same promise, and the cache never holds the
\* promise of an attempt that failed.
C30_OneAttemptInFlight ==
    /\ Cardinality({id \in 1..MaxAttempts : attempts[id] = "pending"}) <= 1
    /\ \A p, q \in Procs :
          (req[p].op = "connectDB" /\ req[q].op = "connectDB") => req[p].promise = req[q].promise
    /\ cached.promise # NoId => attempts[cached.promise] # "rejected"


====
